---- MODULE Spec2Model ----
(***************************************************************************)
(* A model of the audio-URL resolution pipeline of the music player:      *)
(* getSongUrl, the cross-catalog sweep (searchSongFromOtherSources and     *)
(* searchSingleSource), the in-flight guard of                             *)
(* tryGetFullVersionFromOtherSources, searchMusicAPI, the source           *)
(* statistics and the aggregator's circuit breaker.                        *)
(*                                                                         *)
(* Scheduling.  The program runs on one cooperative event loop.  An        *)
(* action of the model is one task of that loop: a call made by the UI,    *)
(* or the arrival of one network response, together with every             *)
(* continuation that becomes runnable without further input (the           *)
(* microtasks drained before the next task): a Promise.all whose last      *)
(* member settled, and the caller awaiting it.  The environment chooses    *)
(* which outstanding request is answered next and with what.               *)
(***************************************************************************)
EXTENDS Integers, Sequences, FiniteSets, TLC

\* ------------------------------------------------------------------ bounds
\* Calls of getSongUrl / tryGetFullVersionFromOtherSources / searchMusicAPI
\* made by the UI in one behaviour of Spec.
MaxCalls == 1
\* Search responses, in one behaviour of Spec, that carry a candidate accepted
\* as best match (every other search response yields no match).
MaxMatches == 2
\* The same two bounds for SpecGuard, whose calls overlap.
GuardCalls == 2
GuardMatches == 1
\* overlapping getSongUrl calls
OverlapCalls == 2
\* largest recorded success count drawn for the ranker
MaxCount == 2
\* operations on the breaker in one behaviour of SpecBreaker
MaxOps == 6
\* lines of an LRC text, items (tags, characters) of a line, tags of a line
MaxLines == 2
MaxTokens == 3
MaxTags == 2
\* length of the strings compared by calculateSimilarity
MaxStrLen == 3
\* candidates in one search response
MaxSongs == 3
\* items of a playlist url or id
MaxIdLen == 5
\* the clock of the proxy stops here; one client's count is followed up to
\* MaxBurst requests in one window, that of the requests without a
\* CF-Connecting-IP header up to MaxUnknown
MaxNow == 120001
MaxBurst == 62
MaxUnknown == 2

\* -------------------------------------------------------- program constants
FALLBACK_SOURCES == <<"kuwo", "kugou", "migu", "tencent", "ximalaya", "joox">>

Sources == {FALLBACK_SOURCES[k] : k \in 1..Len(FALLBACK_SOURCES)}

\* config.PREVIEW_DETECTION and the circuit breaker's options
PROACTIVE_CHECK == TRUE
MIN_FILE_SIZE == 102400
MIN_DURATION == 20
MAX_DURATION == 65
TYPICAL_DURATIONS == {30, 60}
DURATION_TOLERANCE == 2
FailureThreshold == 3
HalfOpenMaxTrials == 1

\* ------------------------------------------------------------------- values
\* A SongUrlResult; size 0 is an absent size, source "" an absent source tag.
NULL == [null |-> TRUE]

Result(url, br, size, source) ==
    [url |-> url, br |-> br, size |-> size, source |-> source]

\* URLs are sequences of characters.
ToLower(ch) ==
    CASE ch = "C" -> "c"
      [] ch = "P" -> "p"
      [] ch = "T" -> "t"
      [] ch = "R" -> "r"
      [] ch = "E" -> "e"
      [] ch = "V" -> "v"
      [] ch = "I" -> "i"
      [] ch = "W" -> "w"
      [] ch = "L" -> "l"
      [] OTHER -> ch

LowerCase(s) == [k \in 1..Len(s) |-> ToLower(s[k])]

Includes(s, pat) ==
    \E k \in 0..(Len(s) - Len(pat)) :
        \A j \in 1..Len(pat) : s[k + j] = pat[j]

previewPatterns ==
    { <<"p","r","e","v","i","e","w">>, <<"t","r","i","a","l">>,
      <<"s","a","m","p","l","e">>, <<"f","r","e","e","p","a","r","t">>,
      <<"c","l","i","p">>, <<"m","-","t","r","i","a","l">> }

Abs(x) == IF x < 0 THEN -x ELSE x

\* Mutant: the patterns are matched case-sensitively.
isProbablyPreview_caseSensitive(url, size, knownDuration) ==
    IF url = <<>> THEN TRUE
    ELSE IF \E p \in previewPatterns : Includes(url, p) THEN TRUE
    ELSE IF size > 0 /\ size < MIN_FILE_SIZE THEN TRUE
    ELSE IF /\ knownDuration > 0
            /\ knownDuration >= MIN_DURATION * 1000
            /\ knownDuration <= MAX_DURATION * 1000
            /\ \E typical \in TYPICAL_DURATIONS :
                   Abs(knownDuration - typical * 1000) <= DURATION_TOLERANCE * 1000
         THEN TRUE
    ELSE FALSE

\* size in bytes (0: absent), knownDuration in milliseconds (0: absent)
isProbablyPreview(url, size, knownDuration) ==
    IF url = <<>> THEN TRUE
    ELSE IF \E p \in previewPatterns : Includes(LowerCase(url), p) THEN TRUE
    ELSE IF size > 0 /\ size < MIN_FILE_SIZE THEN TRUE
    ELSE IF /\ knownDuration > 0
            /\ knownDuration >= MIN_DURATION * 1000
            /\ knownDuration <= MAX_DURATION * 1000
            /\ \E typical \in TYPICAL_DURATIONS :
                   Abs(knownDuration - typical * 1000) <= DURATION_TOLERANCE * 1000
         THEN TRUE
    ELSE FALSE

\* ---------------------------------------------------------- circuit breaker
\* state, consecutive failures, whether the cool-down since the last failure
\* has elapsed (OPEN only), trial calls handed out (HALF_OPEN only).
Breaker(state, failures, cooled, trials) ==
    [state |-> state, failures |-> failures, cooled |-> cooled, trials |-> trials]

\* Mutant: HALF_OPEN lets every caller through.
canExecute_manyTrials(cb) ==
    IF cb.state = "CLOSED" THEN [ok |-> TRUE, cb |-> cb]
    ELSE IF cb.state = "OPEN" THEN
        IF cb.cooled
        THEN [ok |-> TRUE, cb |-> Breaker("HALF_OPEN", cb.failures, FALSE, 1)]
        ELSE [ok |-> FALSE, cb |-> cb]
    ELSE [ok |-> TRUE, cb |-> [cb EXCEPT !.trials = @ + 1]]

canExecute(cb) ==
    IF cb.state = "CLOSED" THEN [ok |-> TRUE, cb |-> cb]
    ELSE IF cb.state = "OPEN" THEN
        IF cb.cooled
        THEN [ok |-> TRUE, cb |-> Breaker("HALF_OPEN", cb.failures, FALSE, 1)]
        ELSE [ok |-> FALSE, cb |-> cb]
    ELSE IF cb.trials < HalfOpenMaxTrials
        THEN [ok |-> TRUE, cb |-> [cb EXCEPT !.trials = @ + 1]]
        ELSE [ok |-> FALSE, cb |-> cb]

recordSuccess(cb) ==
    IF cb.state = "HALF_OPEN" THEN Breaker("CLOSED", 0, FALSE, 0)
    ELSE [cb EXCEPT !.failures = 0]

\* Mutant: the breaker opens one failure late.
recordFailure_late(cb) ==
    LET n == IF cb.failures < FailureThreshold + 1 THEN cb.failures + 1 ELSE cb.failures
    IN IF cb.state = "HALF_OPEN" \/ n > FailureThreshold
       THEN Breaker("OPEN", n, FALSE, 0)
       ELSE Breaker(cb.state, n, FALSE, 0)

recordFailure(cb) ==
    LET n == IF cb.failures < FailureThreshold THEN cb.failures + 1 ELSE cb.failures
    IN IF cb.state = "HALF_OPEN" \/ n >= FailureThreshold
       THEN Breaker("OPEN", n, FALSE, 0)
       ELSE Breaker(cb.state, n, FALSE, 0)

isGDStudioApiAvailable(cb) == canExecute(cb)
markGDStudioApiUnavailable(cb) == recordFailure(cb)
markGDStudioApiAvailable(cb) == recordSuccess(cb)

\* ------------------------------------------------------------ source ranker
RECURSIVE Filter(_, _)
Filter(seq, x) ==
    IF seq = <<>> THEN <<>>
    ELSE IF Head(seq) = x THEN Filter(Tail(seq), x)
    ELSE <<Head(seq)>> \o Filter(Tail(seq), x)

\* Insert s after every element whose count is >= that of s: a stable sort by
\* descending success count.
RECURSIVE InsertSorted(_, _, _)
InsertSorted(sorted, s, succ) ==
    IF sorted = <<>> THEN <<s>>
    ELSE IF succ[Head(sorted)] >= succ[s]
         THEN <<Head(sorted)>> \o InsertSorted(Tail(sorted), s, succ)
         ELSE <<s>> \o sorted

RECURSIVE StableSort(_, _, _)
StableSort(seq, acc, succ) ==
    IF seq = <<>> THEN acc
    ELSE StableSort(Tail(seq), InsertSorted(acc, Head(seq), succ), succ)

\* Mutant: the roster is filtered but not sorted.
getSortedFallbackSources_noSort(excludeSource, succ) ==
    Filter(FALLBACK_SOURCES, excludeSource)

getSortedFallbackSources(excludeSource, succ) ==
    StableSort(Filter(FALLBACK_SOURCES, excludeSource), <<>>, succ)

\* ---------------------------------------------------------------- statistics
\* The two counter maps; a key the Map lacks reads as 0 (`get(k) || 0`).
ZeroCounts == [s \in Sources |-> 0]

NoStats == [absent |-> TRUE]

\* Mutant: the write is not wrapped in try/catch.
saveSourceStats_noCatch(w, writeFails) ==
    [w |-> IF writeFails THEN w
           ELSE [w EXCEPT !.storage = [success |-> w.succ, fail |-> w.fail]],
     threw |-> writeFails]

\* localStorage.setItem may throw (quota, private mode); the catch swallows it.
saveSourceStats(w, writeFails) ==
    [w |-> IF writeFails THEN w
           ELSE [w EXCEPT !.storage = [success |-> w.succ, fail |-> w.fail]],
     threw |-> FALSE]

\* Mutant: the maps are replaced by the stored object, keys it lacks included.
loadSourceStats_replace(w, readFails) ==
    IF readFails \/ w.storage = NoStats THEN w
    ELSE [w EXCEPT !.succ = w.storage.success, !.fail = w.storage.fail]

\* Each stored entry is set into its map; a key the stored object lacks (0
\* here) keeps the value the map has.  A failing read or parse is swallowed.
loadSourceStats(w, readFails) ==
    IF readFails \/ w.storage = NoStats THEN w
    ELSE [w EXCEPT
            !.succ = [s \in Sources |-> IF w.storage.success[s] # 0
                                        THEN w.storage.success[s] ELSE @[s]],
            !.fail = [s \in Sources |-> IF w.storage.fail[s] # 0
                                        THEN w.storage.fail[s] ELSE @[s]]]

\* ------------------------------------------------------------------- state
VARIABLES
    calls,          \* the calls made so far, each with its position
    sweeps,         \* the cross-catalog sweeps started so far
    circuit,        \* gdstudioCircuit
    sourceSuccessCount,
    sourceFailCount,
    storage,        \* localStorage['api_source_stats']
    crossSourceSearchInProgress,
    requests,       \* log: aggregator requests issued, with the gate's answer
    budget,         \* what the environment may still do: calls, matches
    playlistStorage,    \* playlist.ts: key -> playlist
    playlistCounter,    \* playlist.ts
    localPlaylists,     \* localStorage['music888_playlists']
    rateLimitStore,     \* the proxy's map: ip -> window
    now                 \* the proxy's clock, Date.now()

\* the player's and the proxy's own state
playerVars == <<playlistStorage, playlistCounter, localPlaylists>>

proxyVars == <<rateLimitStore, now>>

vars == <<calls, sweeps, circuit, sourceSuccessCount, sourceFailCount, storage,
          crossSourceSearchInProgress, requests, budget, playerVars, proxyVars>>

\* new Map()
EmptyMap == [k \in {} |-> 0]

\* no item under the key
NoPlaylists == [absent |-> TRUE]

\* The player module just loaded, and a proxy instance just started.
PlayerIdle ==
    /\ playlistStorage = EmptyMap
    /\ playlistCounter = 0
    /\ localPlaylists = NoPlaylists

ProxyIdle ==
    /\ rateLimitStore = EmptyMap
    /\ now = 0

\* The program state handled by the operators below.
World ==
    [calls |-> calls, sweeps |-> sweeps, cb |-> circuit,
     succ |-> sourceSuccessCount, fail |-> sourceFailCount, storage |-> storage,
     inprog |-> crossSourceSearchInProgress, reqs |-> requests]

Commit(w) ==
    /\ calls' = w.calls
    /\ sweeps' = w.sweeps
    /\ circuit' = w.cb
    /\ sourceSuccessCount' = w.succ
    /\ sourceFailCount' = w.fail
    /\ storage' = w.storage
    /\ crossSourceSearchInProgress' = w.inprog
    /\ requests' = w.reqs
    /\ UNCHANGED <<playerVars, proxyVars>>

LogRequest(w, fn, gate) ==
    [w EXCEPT !.reqs = @ \cup {[fn |-> fn, gate |-> gate]}]

\* ------------------------------------------------- getSongUrlFromSource
\* Mutant: the request is made whatever the breaker answers.
getSongUrlFromSource_call_noGuard(w) ==
    LET chk == isGDStudioApiAvailable(w.cb)
        w1 == [w EXCEPT !.cb = chk.cb]
    IN [w |-> LogRequest(w1, "getSongUrlFromSource", chk.ok), issued |-> TRUE]

\* The synchronous head: the breaker check, then the request.
getSongUrlFromSource_call(w) ==
    LET chk == isGDStudioApiAvailable(w.cb)
        w1 == [w EXCEPT !.cb = chk.cb]
    IN IF ~chk.ok THEN [w |-> w1, issued |-> FALSE]
       ELSE [w |-> LogRequest(w1, "getSongUrlFromSource", chk.ok), issued |-> TRUE]

\* Mutant: any thrown error is taken for a refusal by the aggregator.
getSongUrlFromSource_resume_anyError(cb, resp, quality) ==
    IF resp.t = "url"
    THEN [cb |-> markGDStudioApiAvailable(cb),
          res |-> Result(resp.url, IF resp.br = "" THEN quality ELSE resp.br,
                         IF resp.size > 0 THEN resp.size * 1024 ELSE 0, "")]
    ELSE IF resp.t \in {"err403", "err"}
    THEN [cb |-> markGDStudioApiUnavailable(cb), res |-> NULL]
    ELSE [cb |-> cb, res |-> NULL]

\* The rest, run when the response arrives.  resp.t is "url" (a body with a
\* url), "nourl", "err403" (a MusicError naming 403) or "err" (anything else
\* thrown by fetchWithRetry or json()).
getSongUrlFromSource_resume(cb, resp, quality) ==
    IF resp.t = "url"
    THEN [cb |-> markGDStudioApiAvailable(cb),
          res |-> Result(resp.url, IF resp.br = "" THEN quality ELSE resp.br,
                         IF resp.size > 0 THEN resp.size * 1024 ELSE 0, "")]
    ELSE IF resp.t = "err403"
    THEN [cb |-> markGDStudioApiUnavailable(cb), res |-> NULL]
    ELSE [cb |-> cb, res |-> NULL]

\* --------------------------------------------------- searchSingleSource
Settle(w, id, s, res) ==
    [w EXCEPT !.sweeps[id].sub[s] = "done",
              !.sweeps[id].res[s] = res,
              !.sweeps[id].first =
                  IF @ = "" /\ res # NULL THEN s ELSE @]

\* Mutant: the search goes out without asking the breaker.
searchSingleSource_call_noCheck(w, id, s) ==
    [LogRequest(w, "searchSingleSource", canExecute(w.cb).ok)
        EXCEPT !.sweeps[id].sub[s] = "search"]

searchSingleSource_call(w, id, s) ==
    LET chk == isGDStudioApiAvailable(w.cb)
        w1 == [w EXCEPT !.cb = chk.cb]
    IN IF ~chk.ok THEN Settle(w1, id, s, NULL)
       ELSE [LogRequest(w1, "searchSingleSource", chk.ok)
                EXCEPT !.sweeps[id].sub[s] = "search"]

\* for (const q of ['128', '320']): the iteration for q and what follows it
RECURSIVE searchSingleSource_try(_, _, _, _)
searchSingleSource_try(w, id, s, q) ==
    LET g == getSongUrlFromSource_call(w)
    IN IF g.issued THEN [g.w EXCEPT !.sweeps[id].sub[s] = "url" \o q]
       ELSE LET w1 == [g.w EXCEPT !.sweeps[id].withheld = TRUE]
            IN IF q = "128" THEN searchSingleSource_try(w1, id, s, "320")
               ELSE Settle(w1, id, s, NULL)

\* A search response carrying a candidate scored above the threshold.
searchSingleSource_found(w, id, s) == searchSingleSource_try(w, id, s, "128")

\* A search response without such a candidate (no songs, none above the
\* threshold, or fetchWithRetry / json() threw): nothing is looked up.
searchSingleSource_none(w, id, s) == Settle(w, id, s, NULL)

\* Mutant: any result with a url is accepted, preview or not.
searchSingleSource_url_anyUrl(w, id, s, q, resp) ==
    LET r == getSongUrlFromSource_resume(w.cb, resp, q)
        w1 == [w EXCEPT !.cb = r.cb]
    IN IF r.res # NULL /\ r.res.url # <<>>
       THEN Settle(w1, id, s, [r.res EXCEPT !.source = s])
       ELSE IF q = "128" THEN searchSingleSource_try(w1, id, s, "320")
       ELSE Settle(w1, id, s, NULL)

\* The response to the url lookup for bitrate q.
searchSingleSource_url(w, id, s, q, resp) ==
    LET r == getSongUrlFromSource_resume(w.cb, resp, q)
        w1 == [w EXCEPT !.cb = r.cb]
    IN IF r.res # NULL /\ r.res.url # <<>>
          /\ ~isProbablyPreview(r.res.url, r.res.size, 0)
       THEN Settle(w1, id, s, [r.res EXCEPT !.source = s])
       ELSE IF q = "128" THEN searchSingleSource_try(w1, id, s, "320")
       ELSE Settle(w1, id, s, NULL)

\* ------------------------------------------- searchSongFromOtherSources
RECURSIVE StartAll(_, _, _)
StartAll(w, id, k) ==
    IF k > Len(w.sweeps[id].order) THEN w
    ELSE StartAll(searchSingleSource_call(w, id, w.sweeps[id].order[k]), id, k + 1)

\* The synchronous head: rank the roster, start one search per source.
searchSongFromOtherSources_call(w, excludeSource) ==
    LET order == getSortedFallbackSources(excludeSource, w.succ)
        S == {order[k] : k \in 1..Len(order)}
        sw == [exclude |-> excludeSource, order |-> order,
               sub |-> [s \in S |-> "init"], res |-> [s \in S |-> NULL],
               phase |-> "running", ret |-> NULL, first |-> "", withheld |-> FALSE]
        id == Len(w.sweeps) + 1
    IN StartAll([w EXCEPT !.sweeps = Append(@, sw)], id, 1)

AllSettled(sw) == \A s \in DOMAIN sw.sub : sw.sub[s] = "done"

\* Mutant: the first result to arrive wins, and only its counter moves.
ResultsLoop_firstArrived(w, id, k, writeFails) ==
    LET sw == w.sweeps[id]
    IN IF sw.first = ""
       THEN [saveSourceStats([w EXCEPT !.fail = [s \in Sources |->
                                 IF s \in DOMAIN sw.sub THEN @[s] + 1 ELSE @[s]]],
                             writeFails)
                EXCEPT !.w.sweeps[id].ret = NULL]
       ELSE [saveSourceStats([w EXCEPT !.succ[sw.first] = @ + 1], writeFails)
                EXCEPT !.w.sweeps[id].ret = sw.res[sw.first]]

\* Mutant: every source's counter moves, the loop not stopping at the first
\* success.
RECURSIVE ResultsLoop_countAll(_, _, _, _)
ResultsLoop_countAll(w, id, k, writeFails) ==
    LET sw == w.sweeps[id]
    IN IF k > Len(sw.order) THEN saveSourceStats(w, writeFails)
       ELSE LET source == sw.order[k]
                res == sw.res[source]
            IN IF res # NULL
               THEN ResultsLoop_countAll(
                        [w EXCEPT !.succ[source] = @ + 1,
                                  !.sweeps[id].ret = IF @ = NULL THEN res ELSE @],
                        id, k + 1, writeFails)
               ELSE ResultsLoop_countAll([w EXCEPT !.fail[source] = @ + 1],
                                         id, k + 1, writeFails)

\* for (const { source, res } of results): from position k on
RECURSIVE ResultsLoop(_, _, _, _)
ResultsLoop(w, id, k, writeFails) ==
    LET sw == w.sweeps[id]
    IN IF k > Len(sw.order)
       THEN [saveSourceStats(w, writeFails) EXCEPT !.w.sweeps[id].ret = NULL]
       ELSE LET source == sw.order[k]
                res == sw.res[source]
            IN IF res # NULL
               THEN [saveSourceStats([w EXCEPT !.succ[source] = @ + 1], writeFails)
                        EXCEPT !.w.sweeps[id].ret = res]
               ELSE ResultsLoop([w EXCEPT !.fail[source] = @ + 1], id, k + 1, writeFails)

\* Mutant: a failing write of the stats escapes the sweep.
searchSongFromOtherSources_resume_writeThrows(w, id, writeFails) ==
    LET r == ResultsLoop(w, id, 1, writeFails)
    IN [r.w EXCEPT !.sweeps[id].phase = IF r.threw \/ writeFails THEN "rejected"
                                         ELSE "done"]

\* What runs once Promise.all has resolved.
searchSongFromOtherSources_resume(w, id, writeFails) ==
    LET r == ResultsLoop(w, id, 1, writeFails)
    IN [r.w EXCEPT !.sweeps[id].phase = IF r.threw THEN "rejected" ELSE "done"]

\* ------------------------------------------------------------- getSongUrl
SourceOf(song) == IF song.source = "" THEN "netease" ELSE song.source

Sentinel(quality) == Result(<<>>, quality, 0, "")

Return(w, i, res) ==
    [w EXCEPT !.calls[i].pc = "done", !.calls[i].ret = res]

\* crossSourcePromise = searchSongFromOtherSources(...)
getSongUrl_startSweep(w, i) ==
    LET w1 == searchSongFromOtherSources_call(w, SourceOf(w.calls[i].song))
    IN [w1 EXCEPT !.calls[i].sweep = Len(w1.sweeps)]

\* Mutant: the last stashed candidate is returned.
getSongUrl_final_last(w, i) ==
    LET c == w.calls[i]
    IN IF Len(c.candidates) > 0 THEN Return(w, i, c.candidates[Len(c.candidates)])
       ELSE Return(w, i, Sentinel(c.quality))

\* if (candidates.length > 0) return candidates[0]; return the sentinel
getSongUrl_final(w, i) ==
    LET c == w.calls[i]
    IN IF Len(c.candidates) > 0 THEN Return(w, i, c.candidates[1])
       ELSE Return(w, i, Sentinel(c.quality))

\* 3: if a sweep was started, await it
getSongUrl_step3(w, i) ==
    IF w.calls[i].sweep # 0 THEN [w EXCEPT !.calls[i].pc = "sweep"]
    ELSE getSongUrl_final(w, i)

\* Mutant: a stashed preview outranks the sweep's result.
getSongUrl_afterSweep_preferStash(w, i) ==
    LET sw == w.sweeps[w.calls[i].sweep]
    IN IF sw.phase = "rejected"
       THEN [w EXCEPT !.calls[i].pc = "done", !.calls[i].threw = TRUE]
       ELSE IF Len(w.calls[i].candidates) > 0 THEN getSongUrl_final(w, i)
       ELSE IF sw.ret # NULL THEN Return(w, i, sw.ret)
       ELSE getSongUrl_final(w, i)

\* the sweep awaited in step 3 has settled
getSongUrl_afterSweep(w, i) ==
    LET sw == w.sweeps[w.calls[i].sweep]
    IN IF sw.phase = "rejected"
       THEN [w EXCEPT !.calls[i].pc = "done", !.calls[i].threw = TRUE]
       ELSE IF sw.ret # NULL THEN Return(w, i, sw.ret)
       ELSE getSongUrl_final(w, i)

\* 2: the aggregator, when its breaker allows
getSongUrl_step2(w, i) ==
    LET chk == isGDStudioApiAvailable(w.cb)
        w1 == [w EXCEPT !.cb = chk.cb]
    IN IF ~chk.ok THEN getSongUrl_step3([w1 EXCEPT !.calls[i].agg = "skipped"], i)
       ELSE LET g == getSongUrlFromSource_call(w1)
            IN IF g.issued
               THEN [g.w EXCEPT !.calls[i].pc = "agg", !.calls[i].agg = "pending"]
               ELSE getSongUrl_step3([g.w EXCEPT !.calls[i].agg = "refused"], i)

\* Mutant: a full result of the aggregator still waits for a started sweep.
getSongUrl_agg_awaitSweep(w, i, resp) ==
    LET c == w.calls[i]
        r == getSongUrlFromSource_resume(w.cb, resp, c.quality)
        w1 == [w EXCEPT !.cb = r.cb, !.calls[i].aggRes = r.res]
    IN IF r.res = NULL THEN getSongUrl_step3([w1 EXCEPT !.calls[i].agg = "fail"], i)
       ELSE IF ~isProbablyPreview(r.res.url, r.res.size, c.song.duration)
       THEN IF c.sweep # 0
            THEN [w1 EXCEPT !.calls[i].agg = "full", !.calls[i].pc = "sweep",
                            !.calls[i].candidates = <<r.res>> \o @]
            ELSE Return([w1 EXCEPT !.calls[i].agg = "full"], i, r.res)
       ELSE LET w2 == [w1 EXCEPT !.calls[i].agg = "preview",
                                 !.calls[i].candidates = Append(@, r.res)]
                w3 == IF c.sweep = 0 /\ PROACTIVE_CHECK
                      THEN getSongUrl_startSweep(w2, i) ELSE w2
            IN getSongUrl_step3(w3, i)

\* the aggregator's response to the direct lookup
getSongUrl_agg(w, i, resp) ==
    LET c == w.calls[i]
        r == getSongUrlFromSource_resume(w.cb, resp, c.quality)
        w1 == [w EXCEPT !.cb = r.cb, !.calls[i].aggRes = r.res]
    IN IF r.res = NULL THEN getSongUrl_step3([w1 EXCEPT !.calls[i].agg = "fail"], i)
       ELSE IF ~isProbablyPreview(r.res.url, r.res.size, c.song.duration)
       THEN Return([w1 EXCEPT !.calls[i].agg = "full"], i, r.res)
       ELSE LET w2 == [w1 EXCEPT !.calls[i].agg = "preview",
                                 !.calls[i].candidates = Append(@, r.res)]
                w3 == IF c.sweep = 0 /\ PROACTIVE_CHECK
                      THEN getSongUrl_startSweep(w2, i) ELSE w2
            IN getSongUrl_step3(w3, i)

\* Mutant: a preview from the primary catalog is stashed without starting the
\* sweep.
getSongUrl_primary_noSweep(w, i, resp) ==
    LET w0 == [w EXCEPT !.calls[i].denied = ~canExecute(w.cb).ok]
    IN IF resp.t = "url"
       THEN LET res == Result(resp.url, resp.br, resp.size, "")
                w1 == [w0 EXCEPT !.calls[i].primRes = res]
            IN IF ~isProbablyPreview(res.url, res.size, 0)
               THEN Return([w1 EXCEPT !.calls[i].primary = "full"], i, res)
               ELSE getSongUrl_step2(
                        [w1 EXCEPT !.calls[i].primary = "preview",
                                   !.calls[i].candidates = Append(@, res)], i)
       ELSE getSongUrl_step2([w0 EXCEPT !.calls[i].primary = "fail"], i)

\* 1: the primary catalog's response; resp.t is "url" (code 200 with a url),
\* "nourl" or "throw"
getSongUrl_primary(w, i, resp) ==
    LET w0 == [w EXCEPT !.calls[i].denied = ~canExecute(w.cb).ok]
    IN IF resp.t = "url"
       THEN LET res == Result(resp.url, resp.br, resp.size, "")
                w1 == [w0 EXCEPT !.calls[i].primRes = res]
            IN IF ~isProbablyPreview(res.url, res.size, 0)
               THEN Return([w1 EXCEPT !.calls[i].primary = "full"], i, res)
               ELSE LET w2 == [w1 EXCEPT !.calls[i].primary = "preview",
                                         !.calls[i].candidates = Append(@, res)]
                        w3 == IF PROACTIVE_CHECK
                              THEN getSongUrl_startSweep(w2, i) ELSE w2
                    IN getSongUrl_step2(w3, i)
       ELSE getSongUrl_step2([w0 EXCEPT !.calls[i].primary = "fail"], i)

getSongUrl_call(w, song, quality) ==
    LET c == [kind |-> "getSongUrl", song |-> song, quality |-> quality,
              pc |-> "primary", candidates |-> <<>>, sweep |-> 0,
              ret |-> NULL, threw |-> FALSE,
              primary |-> "none", agg |-> "none", denied |-> FALSE,
              primRes |-> NULL, aggRes |-> NULL]
        i == Len(w.calls) + 1
        w1 == [w EXCEPT !.calls = Append(@, c)]
    IN IF SourceOf(song) = "netease" THEN w1
       ELSE getSongUrl_step2(w1, i)

\* --------------------------------------- tryGetFullVersionFromOtherSources
\* `${song.id}_${song.source}`
KeyOf(song) == song.id \o "_" \o song.source

\* Mutant: the set is not consulted before the key is added.
tryGetFullVersionFromOtherSources_call_noCheck(w, song, quality) ==
    LET key == KeyOf(song)
        c == [kind |-> "tryGetFull", song |-> song, quality |-> quality,
              key |-> key, pc |-> "sweep", sweep |-> 0, ret |-> NULL,
              threw |-> FALSE, acquired |-> TRUE]
        i == Len(w.calls) + 1
        w1 == [w EXCEPT !.inprog = @ \cup {key}, !.calls = Append(@, c)]
        w2 == searchSongFromOtherSources_call(w1, SourceOf(song))
    IN [w2 EXCEPT !.calls[i].sweep = Len(w2.sweeps)]

tryGetFullVersionFromOtherSources_call(w, song, quality) ==
    LET key == KeyOf(song)
        c == [kind |-> "tryGetFull", song |-> song, quality |-> quality,
              key |-> key, pc |-> "done", sweep |-> 0, ret |-> NULL,
              threw |-> FALSE, acquired |-> FALSE]
        i == Len(w.calls) + 1
    IN IF key \in w.inprog THEN [w EXCEPT !.calls = Append(@, c)]
       ELSE LET w1 == [w EXCEPT !.inprog = @ \cup {key},
                                !.calls = Append(@, [c EXCEPT !.pc = "sweep",
                                                              !.acquired = TRUE])]
                w2 == searchSongFromOtherSources_call(w1, SourceOf(song))
            IN [w2 EXCEPT !.calls[i].sweep = Len(w2.sweeps)]

\* Mutant: the key is deleted on the path that returns a result only.
tryGetFullVersionFromOtherSources_resume_noFinally(w, i) ==
    LET c == w.calls[i]
        sw == w.sweeps[c.sweep]
    IN IF sw.phase = "rejected"
       THEN [w EXCEPT !.calls[i].pc = "done", !.calls[i].threw = TRUE]
       ELSE IF sw.ret = NULL THEN Return(w, i, NULL)
       ELSE Return([w EXCEPT !.inprog = @ \ {c.key}], i, sw.ret)

\* the awaited sweep has settled: the finally block, then the return
tryGetFullVersionFromOtherSources_resume(w, i) ==
    LET c == w.calls[i]
        sw == w.sweeps[c.sweep]
        w1 == [w EXCEPT !.inprog = @ \ {c.key}]
    IN IF sw.phase = "rejected"
       THEN [w1 EXCEPT !.calls[i].pc = "done", !.calls[i].threw = TRUE]
       ELSE Return(w1, i, sw.ret)

\* ---------------------------------------------------------- searchMusicAPI
\* 2: the primary catalog's search, for the primary catalog only
searchMusicAPI_step2(w, i) ==
    IF w.calls[i].source = "netease" THEN [w EXCEPT !.calls[i].pc = "nec"]
    ELSE [w EXCEPT !.calls[i].pc = "done", !.calls[i].found = FALSE]

searchMusicAPI_call(w, source) ==
    LET c == [kind |-> "searchMusic", source |-> source, pc |-> "agg",
              found |-> FALSE]
        i == Len(w.calls) + 1
        chk == isGDStudioApiAvailable(w.cb)
        w1 == [w EXCEPT !.cb = chk.cb, !.calls = Append(@, c)]
    IN IF chk.ok THEN LogRequest(w1, "searchMusicAPI", chk.ok)
       ELSE searchMusicAPI_step2(w1, i)

\* the aggregator's search response: "songs", "empty", "err403" or "err"
searchMusicAPI_agg(w, i, resp) ==
    IF resp = "songs"
    THEN [w EXCEPT !.cb = markGDStudioApiAvailable(@),
                   !.calls[i].pc = "done", !.calls[i].found = TRUE]
    ELSE IF resp = "err403"
    THEN searchMusicAPI_step2([w EXCEPT !.cb = markGDStudioApiUnavailable(@)], i)
    ELSE searchMusicAPI_step2(w, i)

\* the primary catalog's search and detail responses taken together
searchMusicAPI_nec(w, i, ok) ==
    [w EXCEPT !.calls[i].pc = "done", !.calls[i].found = ok]

\* ------------------------------------------------------- the event loop
\* Continuations that need no further input: every sweep whose searches have
\* all settled runs its loop, then every caller awaiting a settled sweep
\* resumes.
RECURSIVE FinishReady(_, _, _)
FinishReady(w, id, writeFails) ==
    IF id > Len(w.sweeps) THEN w
    ELSE IF w.sweeps[id].phase = "running" /\ AllSettled(w.sweeps[id])
    THEN FinishReady(searchSongFromOtherSources_resume(w, id, writeFails),
                     id + 1, writeFails)
    ELSE FinishReady(w, id + 1, writeFails)

Awaiting(w, i) ==
    /\ w.calls[i].kind \in {"getSongUrl", "tryGetFull"}
    /\ w.calls[i].pc = "sweep"
    /\ w.sweeps[w.calls[i].sweep].phase # "running"

RECURSIVE ResumeReady(_, _)
ResumeReady(w, i) ==
    IF i > Len(w.calls) THEN w
    ELSE IF Awaiting(w, i)
    THEN ResumeReady(IF w.calls[i].kind = "getSongUrl"
                     THEN getSongUrl_afterSweep(w, i)
                     ELSE tryGetFullVersionFromOtherSources_resume(w, i), i + 1)
    ELSE ResumeReady(w, i + 1)

Drain(w, writeFails) == ResumeReady(FinishReady(w, 1, writeFails), 1)

\* One task of the loop: the handler's result w, then the continuations.  The
\* environment decides whether a write to localStorage made by them fails.
Task(w) ==
    \E writeFails \in IF \E id \in DOMAIN w.sweeps :
                           w.sweeps[id].phase = "running" /\ AllSettled(w.sweeps[id])
                       THEN BOOLEAN ELSE {FALSE} :
        Commit(Drain(w, writeFails))

\* ------------------------------------------------------------ environment
Song(id, source, duration) == [id |-> id, source |-> source, duration |-> duration]

\* -------------------------------------------------------- getAlbumCoverUrl
\* pic is "url" (the song carries pic_url), "id" (pic_id only) or "none".
\* With a pic_id alone the aggregator is asked first, and the breaker is not
\* consulted: the log keeps what canExecute() would have answered.
getAlbumCoverUrl_call(w, pic) ==
    LET c == [kind |-> "cover", pic |-> pic, pc |-> "done", found |-> pic = "url"]
        w1 == [w EXCEPT !.calls = Append(@, [c EXCEPT !.pc = IF pic = "id" THEN "gd"
                                                              ELSE "done"])]
    IN IF pic = "id" THEN LogRequest(w1, "getAlbumCoverUrl", canExecute(w.cb).ok)
       ELSE w1

\* the aggregator's answer, then the second service's when it gave no url
getAlbumCoverUrl_resume(w, i, ok) ==
    IF ok THEN [w EXCEPT !.calls[i].pc = "done", !.calls[i].found = TRUE]
    ELSE IF w.calls[i].pc = "gd" THEN [w EXCEPT !.calls[i].pc = "meting"]
    ELSE [w EXCEPT !.calls[i].pc = "done"]

\* A primary-catalog song, a song of a roster catalog, and a song without a
\* source tag whose metadata gives a typical preview length.
Songs == { Song("1", "netease", 0), Song("2", "kuwo", 0), Song("3", "", 30000) }

Qualities == {"320"}

Resp(t, url, br, size) == [t |-> t, url |-> url, br |-> br, size |-> size]

\* /song/url/match: size in bytes
PrimaryResponses ==
    { Resp("throw", <<>>, "", 0), Resp("nourl", <<>>, "", 0),
      Resp("url", <<"n","f">>, "320", 5000000),
      Resp("url", <<"n","s">>, "128", 51200) }

\* ?types=url: size in KB, br possibly absent
AggResponses ==
    { Resp("err403", <<>>, "", 0), Resp("err", <<>>, "", 0),
      Resp("nourl", <<>>, "", 0),
      Resp("url", <<"g","f">>, "", 4000),
      Resp("url", <<"g","C","l","i","p">>, "128", 0) }

MusicSearchResponses == {"songs", "empty", "err403", "err"}

LoadedCounts == [s \in Sources |-> CASE s = "migu" -> 2 [] s = "kuwo" -> 1 [] OTHER -> 0]

\* ------------------------------------------------------------------ Init
\* States the program can be in when the UI makes a call: the breaker closed
\* (fresh, or one failure short of opening) or open; the counters as loaded at
\* startup from an empty or a filled store.
InitBreakers ==
    { Breaker("CLOSED", 0, FALSE, 0),
      Breaker("CLOSED", FailureThreshold - 1, FALSE, 0),
      Breaker("OPEN", FailureThreshold, FALSE, 0) }

InitStats ==
    \/ /\ storage = NoStats
       /\ sourceSuccessCount = ZeroCounts
       /\ sourceFailCount = ZeroCounts
    \/ /\ storage = [success |-> LoadedCounts, fail |-> ZeroCounts]
       /\ sourceSuccessCount = LoadedCounts
       /\ sourceFailCount = ZeroCounts

Init ==
    /\ calls = <<>>
    /\ sweeps = <<>>
    /\ circuit \in InitBreakers
    /\ InitStats
    /\ crossSourceSearchInProgress = {}
    /\ requests = {}
    /\ PlayerIdle
    /\ ProxyIdle
    /\ budget = [calls |-> MaxCalls, matches |-> MaxMatches]

\* ---------------------------------------------------------------- actions
RECURSIVE SettleUnanswered(_, _, _)
SettleUnanswered(w, id, k) ==
    IF k > Len(w.sweeps[id].order) THEN w
    ELSE LET s == w.sweeps[id].order[k]
         IN SettleUnanswered(IF w.sweeps[id].sub[s] = "search"
                             THEN searchSingleSource_none(w, id, s) ELSE w,
                             id, k + 1)

GetSongUrl(song, quality) ==
    /\ budget.calls > 0
    /\ Task(getSongUrl_call(World, song, quality))
    /\ budget' = [budget EXCEPT !.calls = @ - 1]

PrimaryResponse(i, resp) ==
    /\ calls[i].kind = "getSongUrl"
    /\ calls[i].pc = "primary"
    /\ Task(getSongUrl_primary(World, i, resp))
    /\ UNCHANGED budget

AggResponse(i, resp) ==
    /\ calls[i].kind = "getSongUrl"
    /\ calls[i].pc = "agg"
    /\ Task(getSongUrl_agg(World, i, resp))
    /\ UNCHANGED budget

TryGetFullVersion(song, quality) ==
    /\ budget.calls > 0
    /\ Task(tryGetFullVersionFromOtherSources_call(World, song, quality))
    /\ budget' = [budget EXCEPT !.calls = @ - 1]

SearchResponse(id, s) ==
    /\ sweeps[id].sub[s] = "search"
    /\ budget.matches > 0
    /\ budget' = [budget EXCEPT !.matches = @ - 1]
    /\ Task(searchSingleSource_found(World, id, s))

\* Every search of the sweep still unanswered is answered without an accepted
\* candidate.  Such a response touches nothing but the sweep's own result slot
\* (no breaker call, no counter), so these responses commute with every other
\* event and are delivered together, after the sweep's last match.
SearchesFail(id) ==
    /\ \E s \in DOMAIN sweeps[id].sub : sweeps[id].sub[s] = "search"
    /\ Task(SettleUnanswered(World, id, 1))
    /\ UNCHANGED budget

UrlResponse(id, s, q, resp) ==
    /\ sweeps[id].sub[s] = "url" \o q
    /\ Task(searchSingleSource_url(World, id, s, q, resp))
    /\ UNCHANGED budget

SearchMusic(source) ==
    /\ budget.calls > 0
    /\ Commit(searchMusicAPI_call(World, source))
    /\ budget' = [budget EXCEPT !.calls = @ - 1]

SearchMusicAggResponse(i, resp) ==
    /\ calls[i].kind = "searchMusic"
    /\ calls[i].pc = "agg"
    /\ Commit(searchMusicAPI_agg(World, i, resp))
    /\ UNCHANGED budget

SearchMusicNecResponse(i, ok) ==
    /\ calls[i].kind = "searchMusic"
    /\ calls[i].pc = "nec"
    /\ Commit(searchMusicAPI_nec(World, i, ok))
    /\ UNCHANGED budget

GetAlbumCover(pic) ==
    /\ budget.calls > 0
    /\ Commit(getAlbumCoverUrl_call(World, pic))
    /\ budget' = [budget EXCEPT !.calls = @ - 1]

AlbumCoverResponse(i, ok) ==
    /\ calls[i].kind = "cover"
    /\ calls[i].pc \in {"gd", "meting"}
    /\ Commit(getAlbumCoverUrl_resume(World, i, ok))
    /\ UNCHANGED budget

\* The breaker's cool-down elapses.
CoolDown ==
    /\ circuit.state = "OPEN"
    /\ ~circuit.cooled
    /\ circuit' = [circuit EXCEPT !.cooled = TRUE]
    /\ UNCHANGED <<calls, sweeps, sourceSuccessCount, sourceFailCount, storage,
                   crossSourceSearchInProgress, requests, budget, playerVars, proxyVars>>

Next ==
    \/ \E song \in Songs, quality \in Qualities : GetSongUrl(song, quality)
    \/ \E i \in DOMAIN calls, resp \in PrimaryResponses : PrimaryResponse(i, resp)
    \/ \E i \in DOMAIN calls, resp \in AggResponses : AggResponse(i, resp)
    \/ \E song \in Songs, quality \in Qualities : TryGetFullVersion(song, quality)
    \/ \E id \in DOMAIN sweeps : \E s \in DOMAIN sweeps[id].sub : SearchResponse(id, s)
    \/ \E id \in DOMAIN sweeps : SearchesFail(id)
    \/ \E id \in DOMAIN sweeps : \E s \in DOMAIN sweeps[id].sub :
           \E q \in {"128", "320"}, resp \in AggResponses : UrlResponse(id, s, q, resp)
    \/ \E source \in {"netease", "kuwo"} : SearchMusic(source)
    \/ \E i \in DOMAIN calls, resp \in MusicSearchResponses :
           SearchMusicAggResponse(i, resp)
    \/ \E i \in DOMAIN calls, ok \in BOOLEAN : SearchMusicNecResponse(i, ok)
    \/ \E pic \in {"url", "id", "none"} : GetAlbumCover(pic)
    \/ \E i \in DOMAIN calls, ok \in BOOLEAN : AlbumCoverResponse(i, ok)
    \/ CoolDown

Spec == Init /\ [][Next]_vars

\* Overlapping calls of tryGetFullVersionFromOtherSources alone.
InitGuard ==
    /\ calls = <<>>
    /\ sweeps = <<>>
    /\ circuit \in InitBreakers
    /\ InitStats
    /\ crossSourceSearchInProgress = {}
    /\ requests = {}
    /\ PlayerIdle
    /\ ProxyIdle
    /\ budget = [calls |-> GuardCalls, matches |-> GuardMatches]

NextGuard ==
    \/ \E song \in Songs, quality \in Qualities : TryGetFullVersion(song, quality)
    \/ \E id \in DOMAIN sweeps : \E s \in DOMAIN sweeps[id].sub : SearchResponse(id, s)
    \/ \E id \in DOMAIN sweeps : SearchesFail(id)
    \/ \E id \in DOMAIN sweeps : \E s \in DOMAIN sweeps[id].sub :
           \E q \in {"128", "320"}, resp \in AggResponses : UrlResponse(id, s, q, resp)
    \/ CoolDown

SpecGuard == InitGuard /\ [][NextGuard]_vars

\* Overlapping calls of getSongUrl, the per-source searches finding no match.
InitOverlap ==
    /\ calls = <<>>
    /\ sweeps = <<>>
    /\ circuit \in InitBreakers
    /\ InitStats
    /\ crossSourceSearchInProgress = {}
    /\ requests = {}
    /\ PlayerIdle
    /\ ProxyIdle
    /\ budget = [calls |-> OverlapCalls, matches |-> 0]

NextOverlap ==
    \/ \E song \in Songs, quality \in Qualities : GetSongUrl(song, quality)
    \/ \E i \in DOMAIN calls, resp \in PrimaryResponses : PrimaryResponse(i, resp)
    \/ \E i \in DOMAIN calls, resp \in AggResponses : AggResponse(i, resp)
    \/ \E id \in DOMAIN sweeps : SearchesFail(id)
    \/ CoolDown

SpecOverlap == InitOverlap /\ [][NextOverlap]_vars

\* ------------------------------------------------------- the ranker alone
\* Any recorded success counts, any excluded source.
InitRank ==
    /\ calls = <<>>
    /\ sweeps = <<>>
    /\ circuit = Breaker("CLOSED", 0, FALSE, 0)
    /\ sourceSuccessCount \in [Sources -> 0..MaxCount]
    /\ sourceFailCount = ZeroCounts
    /\ storage = NoStats
    /\ crossSourceSearchInProgress = {}
    /\ requests = {}
    /\ PlayerIdle
    /\ ProxyIdle
    /\ budget = [calls |-> 1, matches |-> 0]

GetSortedFallbackSources(excludeSource) ==
    /\ budget.calls > 0
    /\ calls' = Append(calls, [kind |-> "getSortedFallbackSources",
                               excludeSource |-> excludeSource,
                               ret |-> getSortedFallbackSources(excludeSource,
                                                                sourceSuccessCount)])
    /\ budget' = [budget EXCEPT !.calls = @ - 1]
    /\ UNCHANGED <<sweeps, circuit, sourceSuccessCount, sourceFailCount, storage,
                   crossSourceSearchInProgress, requests, playerVars, proxyVars>>

NextRank == \E x \in Sources \cup {"netease"} : GetSortedFallbackSources(x)

SpecRank == InitRank /\ [][NextRank]_vars

\* ------------------------------------- the statistics' operations as well
LoadSourceStats ==
    /\ \E readFails \in BOOLEAN : Commit(loadSourceStats(World, readFails))
    /\ UNCHANGED budget

SaveSourceStats ==
    /\ \E writeFails \in BOOLEAN : Commit(saveSourceStats(World, writeFails).w)
    /\ UNCHANGED budget

NextStats ==
    \/ Next
    \/ LoadSourceStats
    \/ SaveSourceStats

SpecStats == Init /\ [][NextStats]_vars

\* ------------------------------------------------------ the breaker alone
\* The three entry points of the breaker called in any order from a fresh
\* (CLOSED) breaker; calls keeps the operations made, with canExecute's answer.
InitBreaker ==
    /\ calls = <<>>
    /\ sweeps = <<>>
    /\ circuit = Breaker("CLOSED", 0, FALSE, 0)
    /\ sourceSuccessCount = ZeroCounts
    /\ sourceFailCount = ZeroCounts
    /\ storage = NoStats
    /\ crossSourceSearchInProgress = {}
    /\ requests = {}
    /\ PlayerIdle
    /\ ProxyIdle
    /\ budget = [calls |-> MaxOps, matches |-> 0]

BreakerOp(op, ok, cb) ==
    /\ budget.calls > 0
    /\ calls' = Append(calls, [kind |-> "breaker", op |-> op, ok |-> ok])
    /\ circuit' = cb
    /\ budget' = [budget EXCEPT !.calls = @ - 1]
    /\ UNCHANGED <<sweeps, sourceSuccessCount, sourceFailCount, storage,
                   crossSourceSearchInProgress, requests, playerVars, proxyVars>>

IsGDStudioApiAvailable ==
    LET chk == isGDStudioApiAvailable(circuit)
    IN BreakerOp("canExecute", chk.ok, chk.cb)

MarkGDStudioApiUnavailable ==
    BreakerOp("recordFailure", TRUE, markGDStudioApiUnavailable(circuit))

MarkGDStudioApiAvailable ==
    BreakerOp("recordSuccess", TRUE, markGDStudioApiAvailable(circuit))

NextBreaker ==
    \/ IsGDStudioApiAvailable
    \/ MarkGDStudioApiUnavailable
    \/ MarkGDStudioApiAvailable
    \/ CoolDown

SpecBreaker == InitBreaker /\ [][NextBreaker]_vars

\* ------------------------------------------------------------ parseLyrics
\* A text is the sequence of its lines (split('\n')); a line is a sequence of
\* items, each a substring matching /\[\d{2}:\d{2}\.\d{2,3}\]/ (kept as its
\* three digit groups) or a single other character.
Tag(mm, ss, ff) == [tag |-> TRUE, mm |-> mm, ss |-> ss, ff |-> ff]

Char(ch) == [tag |-> FALSE, ch |-> ch]

IsTag(item) == item.tag

IsChar(item) == ~item.tag

\* parseInt(digits, 10)
RECURSIVE parseInt(_)
parseInt(digits) ==
    IF digits = <<>> THEN 0
    ELSE parseInt(SubSeq(digits, 1, Len(digits) - 1)) * 10 + digits[Len(digits)]

\* String.prototype.trim
RECURSIVE TrimLeft(_)
TrimLeft(str) ==
    IF str # <<>> /\ Head(str) = " " THEN TrimLeft(Tail(str)) ELSE str

RECURSIVE TrimRight(_)
TrimRight(str) ==
    IF str # <<>> /\ str[Len(str)] = " "
    THEN TrimRight(SubSeq(str, 1, Len(str) - 1)) ELSE str

Trim(str) == TrimRight(TrimLeft(str))

\* m * 60 + s + msValue / 1000, kept in milliseconds
TagTime(t) ==
    LET m == parseInt(t.mm)
        s == parseInt(t.ss)
        ms == parseInt(t.ff)
        msValue == IF Len(t.ff) = 2 THEN ms * 10 ELSE ms
    IN (m * 60 + s) * 1000 + msValue

\* Mutant: only the first tag of a line is used.
parseLine_firstTag(line) ==
    LET timeTags == SelectSeq(line, IsTag)
        chars == SelectSeq(line, IsChar)
        text == Trim([k \in 1..Len(chars) |-> chars[k].ch])
    IN IF timeTags = <<>> THEN <<>>
       ELSE IF text = <<>> THEN <<>>
       ELSE <<[time |-> TagTime(timeTags[1]), text |-> text, ttext |-> <<>>]>>

\* ttext = <<>> stands for a line without ttext
parseLine(line) ==
    LET timeTags == SelectSeq(line, IsTag)
        chars == SelectSeq(line, IsChar)
        text == Trim([k \in 1..Len(chars) |-> chars[k].ch])
    IN IF timeTags = <<>> THEN <<>>
       ELSE IF text = <<>> THEN <<>>
       ELSE [k \in 1..Len(timeTags) |->
                [time |-> TagTime(timeTags[k]), text |-> text, ttext |-> <<>>]]

\* lines.forEach(line => parseLine(line).forEach(push))
RECURSIVE parseLines(_)
parseLines(lines) ==
    IF lines = <<>> THEN <<>>
    ELSE parseLine(Head(lines)) \o parseLines(Tail(lines))

\* lyricData.sort((a, b) => a.time - b.time), a stable sort
RECURSIVE InsertByTime(_, _)
InsertByTime(sorted, l) ==
    IF sorted = <<>> THEN <<l>>
    ELSE IF Head(sorted).time <= l.time
         THEN <<Head(sorted)>> \o InsertByTime(Tail(sorted), l)
         ELSE <<l>> \o sorted

RECURSIVE SortByTime(_, _)
SortByTime(seq, acc) ==
    IF seq = <<>> THEN acc
    ELSE SortByTime(Tail(seq), InsertByTime(acc, Head(seq)))

\* Math.abs(l.time - tp.time) < 0.1
Near(t1, t2) == Abs(t1 - t2) < 100

\* Mutant: every line within the tolerance takes the translation.
RECURSIVE mergeTranslation_everyNear(_, _)
mergeTranslation_everyNear(lyricData, tps) ==
    IF tps = <<>> THEN lyricData
    ELSE mergeTranslation_everyNear(
             [k \in 1..Len(lyricData) |->
                 IF Near(lyricData[k].time, Head(tps).time)
                 THEN [lyricData[k] EXCEPT !.ttext = Head(tps).text]
                 ELSE lyricData[k]],
             Tail(tps))

\* for each translation entry in turn: find the first line within the
\* tolerance and set its ttext
RECURSIVE mergeTranslation(_, _)
mergeTranslation(lyricData, tps) ==
    IF tps = <<>> THEN lyricData
    ELSE LET tp == Head(tps)
             hits == {k \in 1..Len(lyricData) : Near(lyricData[k].time, tp.time)}
         IN mergeTranslation(
                IF hits = {} THEN lyricData
                ELSE LET first == CHOOSE k \in hits : \A j \in hits : k <= j
                     IN [lyricData EXCEPT ![first].ttext = tp.text],
                Tail(tps))

\* '' (one empty line) and undefined (no line at all) are falsy
EmptyText == << <<>> >>

UndefinedText == <<>>

parseLyrics(lrc, tlyric) ==
    IF lrc = EmptyText THEN <<>>
    ELSE LET lyricData == SortByTime(parseLines(lrc), <<>>)
         IN IF tlyric = UndefinedText \/ tlyric = EmptyText THEN lyricData
            ELSE mergeTranslation(lyricData, parseLines(tlyric))

\* Tags at 1.000 s, 1.050 s (two-digit fraction) and 60.950 s (three-digit).
Tags ==
    { Tag(<<0, 0>>, <<0, 1>>, <<0, 0>>),
      Tag(<<0, 0>>, <<0, 1>>, <<0, 5>>),
      Tag(<<0, 1>>, <<0, 0>>, <<9, 5, 0>>) }

\* "[" stands for a bracket that opens no well-formed tag.
Items == Tags \cup {Char("x"), Char(" "), Char("[")}

SeqsUpTo(S, lo, hi) == UNION {[1..n -> S] : n \in lo..hi}

\* Any LRC text of up to MaxLines lines of up to MaxTokens items.
LrcTexts == SeqsUpTo(SeqsUpTo(Items, 0, MaxTokens), 1, MaxLines)

ParseCall(lrc, tlyric) ==
    [kind |-> "parseLyrics", lrc |-> lrc, tlyric |-> tlyric, pc |-> "call",
     ret |-> <<>>]

InitPure ==
    /\ sweeps = <<>>
    /\ circuit = Breaker("CLOSED", 0, FALSE, 0)
    /\ sourceSuccessCount = ZeroCounts
    /\ sourceFailCount = ZeroCounts
    /\ storage = NoStats
    /\ crossSourceSearchInProgress = {}
    /\ requests = {}
    /\ PlayerIdle
    /\ ProxyIdle
    /\ budget = [calls |-> 0, matches |-> 0]

InitLyrics ==
    /\ \E lrc \in LrcTexts : calls = <<ParseCall(lrc, UndefinedText)>>
    /\ InitPure

ParseLyrics ==
    /\ calls # <<>>
    /\ calls[1].kind = "parseLyrics"
    /\ calls[1].pc = "call"
    /\ calls' = [calls EXCEPT ![1].pc = "done",
                              ![1].ret = parseLyrics(calls[1].lrc, calls[1].tlyric)]
    /\ UNCHANGED <<sweeps, circuit, sourceSuccessCount, sourceFailCount, storage,
                   crossSourceSearchInProgress, requests, budget, playerVars, proxyVars>>

SpecLyrics == InitLyrics /\ [][ParseLyrics]_vars

\* Primary and translation texts whose lines are tags followed by one letter;
\* a translation line may also be tags alone.
TagRuns == SeqsUpTo(Tags, 1, MaxTags)

PrimaryLines == {run \o <<Char("x")>> : run \in TagRuns}

TranslationLines ==
    {run \o <<Char(ch)>> : run \in TagRuns, ch \in {"A", "B"}}
        \cup {<<t>> : t \in Tags}

InitMerge ==
    /\ \E lrc \in SeqsUpTo(PrimaryLines, 1, MaxLines),
          tlyric \in SeqsUpTo(TranslationLines, 1, MaxLines) \cup {UndefinedText, EmptyText} :
            calls = <<ParseCall(lrc, tlyric)>>
    /\ InitPure

SpecMerge == InitMerge /\ [][ParseLyrics]_vars

\* -------------------------------------------------- isProbablyPreview alone
\* URLs: empty, plain, one per pattern inside other characters, mixed case,
\* and near misses.
PreviewUrls ==
    { <<>>, <<"x">>, <<"c","l","i">>, <<"p","r","e","v","i","e","v">>,
      <<"x","p","r","e","v","i","e","w","y">>, <<"P","r","e","V","i","e","W">>,
      <<"t","r","i","a","l">>, <<"x","s","a","m","p","l","e">>,
      <<"f","r","e","e","p","a","r","t","y">>, <<"C","L","I","P">>,
      <<"m","-","t","r","i","a","l">>, <<"t","r","i","-","a","l">> }

\* bytes; 0 is an absent size
PreviewSizes == {0, 1, 20000, MIN_FILE_SIZE - 1, MIN_FILE_SIZE, 5000000}

\* milliseconds; 0 is an absent duration
PreviewDurations ==
    {0, 1000} \cup
    {(MIN_DURATION * 1000) + d : d \in {-1, 0}} \cup
    {(MAX_DURATION * 1000) + d : d \in {0, 1}} \cup
    {(t * 1000) + d : t \in TYPICAL_DURATIONS,
                      d \in {-(DURATION_TOLERANCE * 1000) - 1, -(DURATION_TOLERANCE * 1000),
                             0, DURATION_TOLERANCE * 1000, (DURATION_TOLERANCE * 1000) + 1}}
    \cup {45000, 240000}

InitPreview ==
    /\ \E url \in PreviewUrls, size \in PreviewSizes, knownDuration \in PreviewDurations :
          calls = <<[kind |-> "isProbablyPreview", url |-> url, size |-> size,
                     knownDuration |-> knownDuration, pc |-> "call", ret |-> FALSE]>>
    /\ InitPure

IsProbablyPreview ==
    /\ calls # <<>>
    /\ calls[1].kind = "isProbablyPreview"
    /\ calls[1].pc = "call"
    /\ calls' = [calls EXCEPT
                    ![1].pc = "done",
                    ![1].ret = isProbablyPreview(calls[1].url, calls[1].size,
                                                 calls[1].knownDuration)]
    /\ UNCHANGED <<sweeps, circuit, sourceSuccessCount, sourceFailCount, storage,
                   crossSourceSearchInProgress, requests, budget, playerVars, proxyVars>>

SpecPreview == InitPreview /\ [][IsProbablyPreview]_vars

\* ---------------------------------------------------- calculateSimilarity
\* /[\s\-\_\(\)\[\]（）]/g
\* (the full-width brackets are not among the characters drawn)
Stripped == {" ", "-", "_", "(", ")", "[", "]"}

Kept(ch) == ch \notin Stripped

\* s.toLowerCase().replace(/[\s\-\_\(\)\[\]（）]/g, '')
normalize(s) == SelectSeq(LowerCase(s), Kept)

\* new Set(s)
CharSet(s) == {s[k] : k \in 1..Len(s)}

\* a quotient n / d
Ratio(n, d) == [n |-> n, d |-> d]

\* Mutant: containment is tested one way only.
calculateSimilarity_oneWay(str1, str2) ==
    LET s1 == normalize(str1)
        s2 == normalize(str2)
    IN IF s1 = s2 THEN Ratio(1, 1)
       ELSE IF Includes(s1, s2) THEN Ratio(4, 5)
       ELSE Ratio(Cardinality(CharSet(s1) \cap CharSet(s2)),
                  Cardinality(CharSet(s1) \cup CharSet(s2)))

\* 1.0 is 1/1 and 0.8 is 4/5
calculateSimilarity(str1, str2) ==
    LET s1 == normalize(str1)
        s2 == normalize(str2)
    IN IF s1 = s2 THEN Ratio(1, 1)
       ELSE IF Includes(s1, s2) \/ Includes(s2, s1) THEN Ratio(4, 5)
       ELSE Ratio(Cardinality(CharSet(s1) \cap CharSet(s2)),
                  Cardinality(CharSet(s1) \cup CharSet(s2)))

SimilarityChars == {"c", "C", "l", "p", " ", "("}

SimilarityStrings == SeqsUpTo(SimilarityChars, 0, MaxStrLen)

InitSimilarity ==
    /\ \E str1 \in SimilarityStrings, str2 \in SimilarityStrings :
          calls = <<[kind |-> "calculateSimilarity", str1 |-> str1, str2 |-> str2,
                     pc |-> "call", ret |-> Ratio(0, 1)]>>
    /\ InitPure

CalculateSimilarity ==
    /\ calls # <<>>
    /\ calls[1].kind = "calculateSimilarity"
    /\ calls[1].pc = "call"
    /\ calls' = [calls EXCEPT
                    ![1].pc = "done",
                    ![1].ret = calculateSimilarity(calls[1].str1, calls[1].str2)]
    /\ UNCHANGED <<sweeps, circuit, sourceSuccessCount, sourceFailCount, storage,
                   crossSourceSearchInProgress, requests, budget, playerVars, proxyVars>>

SpecSimilarity == InitSimilarity /\ [][CalculateSimilarity]_vars

\* ------------------------------------- the best match of a search response
\* Values config.PREVIEW_DETECTION.SIMILARITY_THRESHOLD may be set to, as
\* quotients; a run is made under one of them.
SIMILARITY_THRESHOLD == {Ratio(1, 2), Ratio(3, 5), Ratio(4, 5)}

\* candidateArtist.join('/')
RECURSIVE Join(_)
Join(parts) ==
    IF parts = <<>> THEN <<>>
    ELSE IF Len(parts) = 1 THEN parts[1]
    ELSE parts[1] \o <<"/">> \o Join(Tail(parts))

\* nameScore * 0.6 + artistScore * 0.4; an artist is a string, or an array
\* of strings (isArray) joined with '/'
calculateSongMatchScore(targetName, targetArtist, candidateName, candidateArtist) ==
    LET nameScore == calculateSimilarity(targetName, candidateName)
        candidateArtistStr == IF candidateArtist.isArray THEN Join(candidateArtist.v)
                              ELSE candidateArtist.v
        artistScore == calculateSimilarity(targetArtist, candidateArtistStr)
    IN Ratio((3 * nameScore.n * artistScore.d) + (2 * artistScore.n * nameScore.d),
             5 * nameScore.d * artistScore.d)

\* a > b, for quotients with positive denominators
Greater(a, b) == a.n * b.d > b.n * a.d

\* Mutant: a candidate scoring exactly the threshold is accepted too.
bestMatch_atThreshold(songName, artistName, songs, threshold) ==
    LET score(k) == calculateSongMatchScore(songName, artistName,
                                            songs[k].name, songs[k].artist)
        ok == {k \in 1..Len(songs) : ~Greater(threshold, score(k))}
    IN IF ok = {} THEN 0
       ELSE CHOOSE k \in ok :
               \A j \in ok : \/ Greater(score(k), score(j))
                             \/ (~Greater(score(j), score(k)) /\ k <= j)

\* songs.map(score).filter(score > threshold).sort(descending, stable)[0]:
\* the position in songs of the candidate chosen, 0 when there is none
bestMatch(songName, artistName, songs, threshold) ==
    LET score(k) == calculateSongMatchScore(songName, artistName,
                                            songs[k].name, songs[k].artist)
        ok == {k \in 1..Len(songs) : Greater(score(k), threshold)}
    IN IF ok = {} THEN 0
       ELSE CHOOSE k \in ok :
               \A j \in ok : \/ Greater(score(k), score(j))
                             \/ (~Greater(score(j), score(k)) /\ k <= j)

\* The search response of one source: the best match's url lookup is started
\* (for '128' first), or the source yields null.
searchSingleSource_response(w, i) ==
    LET c == w.calls[i]
        b == bestMatch(c.songName, c.artistName, c.songs, c.threshold)
    IN IF b = 0 THEN [w EXCEPT !.calls[i].pc = "done", !.calls[i].ret = NULL]
       ELSE LET g == getSongUrlFromSource_call(w)
            IN IF g.issued
               THEN [g.w EXCEPT !.calls[i].pc = "url128", !.calls[i].lookup = b]
               ELSE [g.w EXCEPT !.calls[i].pc = "url320", !.calls[i].lookup = b]

Str(isArray, v) == [isArray |-> isArray, v |-> v]

\* Candidates for the target "cp" by "l": names scoring 1, 0.8, 1/3 and 0,
\* artists scoring 1, 0.8 (one of them an array) and 0.
CandidateNames == {<<"c","p">>, <<"c","p","l">>, <<"c","l">>, <<"l">>}

CandidateArtists ==
    {Str(FALSE, <<"l">>), Str(FALSE, <<"l","p">>), Str(TRUE, << <<"l">>, <<"p">> >>),
     Str(FALSE, <<"p">>)}

Candidates == [name : CandidateNames, artist : CandidateArtists]

InitMatch ==
    /\ \E songs \in SeqsUpTo(Candidates, 0, MaxSongs), threshold \in SIMILARITY_THRESHOLD :
          calls = <<[kind |-> "searchSingleSource", songName |-> <<"c","p">>,
                     artistName |-> <<"l">>, songs |-> songs, threshold |-> threshold,
                     pc |-> "search", lookup |-> 0, ret |-> NULL]>>
    /\ sweeps = <<>>
    /\ circuit = Breaker("CLOSED", 0, FALSE, 0)
    /\ sourceSuccessCount = ZeroCounts
    /\ sourceFailCount = ZeroCounts
    /\ storage = NoStats
    /\ crossSourceSearchInProgress = {}
    /\ requests = {[fn |-> "searchSingleSource", gate |-> TRUE]}
    /\ PlayerIdle
    /\ ProxyIdle
    /\ budget = [calls |-> 0, matches |-> 0]

SingleSourceSearchResponse ==
    /\ calls # <<>>
    /\ calls[1].kind = "searchSingleSource"
    /\ calls[1].pc = "search"
    /\ Commit(searchSingleSource_response(World, 1))
    /\ UNCHANGED budget

SpecMatch == InitMatch /\ [][SingleSourceSearchResponse]_vars

\* ------------------------------------------------------- parsePlaylistAPI
\* The items a playlist url or id is made of: a digit, a letter, a blank,
\* and the texts 'id=' and 'playlist/' the two patterns look for.
PlaylistItems == {"7", "x", " ", "id=", "playlist/"}

IsDigit(ch) == ch = "7"

\* the longest run of digits str starts with
RECURSIVE DigitRun(_)
DigitRun(str) ==
    IF str # <<>> /\ IsDigit(Head(str)) THEN <<Head(str)>> \o DigitRun(Tail(str))
    ELSE <<>>

\* str.match(/<prefix>(\d+)/): the positions where the pattern matches
MatchesAt(str, prefix) ==
    {p \in 1..(Len(str) - 1) : str[p] = prefix /\ IsDigit(str[p + 1])}

\* group 1 of the leftmost match
Group1(str, prefix) ==
    LET p == CHOOSE q \in MatchesAt(str, prefix) :
                 \A r \in MatchesAt(str, prefix) : q <= r
    IN DigitRun(SubSeq(str, p + 1, Len(str)))

\* id after trim() and the id= / playlist/ extraction
PlaylistId(playlistUrlOrId) ==
    LET id == Trim(playlistUrlOrId)
    IN IF MatchesAt(id, "id=") # {} THEN Group1(id, "id=")
       ELSE IF MatchesAt(id, "playlist/") # {} THEN Group1(id, "playlist/")
       ELSE id

\* /^\d+$/.test(id)
AllDigits(id) == id # <<>> /\ \A k \in 1..Len(id) : IsDigit(id[k])

Thrown(message) == [error |-> message]

\* The repository holds parsePlaylistAPI twice: src/js/api/search.ts tests
\* the id before anything else, the copy in part_003 does not.
parsePlaylistAPI_call(w, i) ==
    LET c == w.calls[i]
        id == PlaylistId(c.playlistUrlOrId)
    IN IF c.validates /\ ~AllDigits(id)
       THEN [w EXCEPT !.calls[i].pc = "done", !.calls[i].id = id,
                      !.calls[i].ret = Thrown("invalid playlist id")]
       ELSE [LogRequest(w, "parsePlaylistAPI", TRUE) EXCEPT
                 !.calls[i].pc = "playlist", !.calls[i].id = id]

\* The answer to the playlist request, then (nec only) to the song details.
parsePlaylistAPI_resume(w, i, answer) ==
    LET c == w.calls[i]
    IN IF answer = "rejected"
       THEN [w EXCEPT !.calls[i].pc = "done", !.calls[i].ret = Thrown("fetch failed")]
       ELSE IF answer = "other"
       THEN [w EXCEPT !.calls[i].pc = "done",
                      !.calls[i].ret = Thrown("playlist parse failed")]
       ELSE IF c.pc = "playlist" /\ c.api = "nec"
       THEN [LogRequest(w, "parsePlaylistAPI", TRUE) EXCEPT !.calls[i].pc = "detail"]
       ELSE [w EXCEPT !.calls[i].pc = "done", !.calls[i].ret = [songs |-> c.id]]

InitPlaylist ==
    /\ \E str \in SeqsUpTo(PlaylistItems, 0, MaxIdLen), api \in {"nec", "meting"},
          validates \in BOOLEAN :
          calls = <<[kind |-> "parsePlaylistAPI", playlistUrlOrId |-> str,
                     api |-> api, validates |-> validates, pc |-> "call",
                     id |-> <<>>, ret |-> NULL]>>
    /\ InitPure

ParsePlaylist ==
    /\ calls # <<>>
    /\ calls[1].kind = "parsePlaylistAPI"
    /\ calls[1].pc = "call"
    /\ Commit(parsePlaylistAPI_call(World, 1))
    /\ UNCHANGED budget

PlaylistResponse(answer) ==
    /\ calls # <<>>
    /\ calls[1].kind = "parsePlaylistAPI"
    /\ calls[1].pc \in {"playlist", "detail"}
    /\ Commit(parsePlaylistAPI_resume(World, 1, answer))
    /\ UNCHANGED budget

NextPlaylist ==
    \/ ParsePlaylist
    \/ \E answer \in {"expected", "other", "rejected"} : PlaylistResponse(answer)

SpecPlaylist == InitPlaylist /\ [][NextPlaylist]_vars

\* ------------------------------------ tryGetFullVersionFromNeteaseUnblock
\* for (let attempt = 0; attempt < 2; attempt++)
UnblockRounds == 2

\* Array.from(new Set(items)): the first occurrence of each item is kept
RECURSIVE Dedup(_)
Dedup(items) ==
    IF items = <<>> THEN <<>>
    ELSE LET front == Dedup(SubSeq(items, 1, Len(items) - 1))
             last == items[Len(items)]
         IN IF \E k \in 1..Len(front) : front[k] = last THEN front
            ELSE Append(front, last)

\* Mutant: the queue is not deduplicated.
brQueue_noSet(quality) == <<"128", "192", "320", quality>>

brQueue(quality) == Dedup(<<"128", "192", "320", quality>>)

\* The bitrate of the n-th request of a call (n from 1), rounds one after
\* the other.
UnblockBr(quality, n) ==
    brQueue(quality)[((n - 1) % Len(brQueue(quality))) + 1]

\* Entry: null at once for a song of another source, else the first request.
tryGetFullVersionFromNeteaseUnblock_call(w, i) ==
    LET c == w.calls[i]
        source == IF c.song.source = "" THEN "netease" ELSE c.song.source
    IN IF source # "netease"
       THEN [w EXCEPT !.calls[i].pc = "done", !.calls[i].ret = NULL]
       ELSE [LogRequest(w, "tryGetFullVersionFromNeteaseUnblock", TRUE) EXCEPT
                 !.calls[i].pc = "wait",
                 !.calls[i].asked = <<UnblockBr(c.quality, 1)>>]

\* One answer: a url ends the call; anything else (a rejected fetch, a
\* body without url) moves on to the next bitrate or round, or to null.
tryGetFullVersionFromNeteaseUnblock_resume(w, i, answer) ==
    LET c == w.calls[i]
        n == Len(c.asked)
        got == [w EXCEPT !.calls[i].answers = Append(@, answer)]
    IN IF answer = "url"
       THEN [got EXCEPT !.calls[i].pc = "done",
                        !.calls[i].ret = [url |-> <<"f">>, br |-> c.asked[n]]]
       ELSE IF n < UnblockRounds * Len(brQueue(c.quality))
       THEN [got EXCEPT !.calls[i].asked = Append(@, UnblockBr(c.quality, n + 1))]
       ELSE [got EXCEPT !.calls[i].pc = "done", !.calls[i].ret = NULL]

UnblockSources == {"netease", "", "kuwo"}

UnblockQualities == {"128", "192", "320", "999"}

InitUnblock ==
    /\ \E source \in UnblockSources, quality \in UnblockQualities :
          calls = <<[kind |-> "tryGetFullVersionFromNeteaseUnblock",
                     song |-> [id |-> "1", source |-> source], quality |-> quality,
                     pc |-> "call", asked |-> <<>>, answers |-> <<>>, ret |-> NULL]>>
    /\ InitPure

UnblockCall ==
    /\ calls # <<>>
    /\ calls[1].kind = "tryGetFullVersionFromNeteaseUnblock"
    /\ calls[1].pc = "call"
    /\ Commit(tryGetFullVersionFromNeteaseUnblock_call(World, 1))
    /\ UNCHANGED budget

UnblockResponse(answer) ==
    /\ calls # <<>>
    /\ calls[1].kind = "tryGetFullVersionFromNeteaseUnblock"
    /\ calls[1].pc = "wait"
    /\ Commit(tryGetFullVersionFromNeteaseUnblock_resume(World, 1, answer))
    /\ UNCHANGED budget

NextUnblock ==
    \/ UnblockCall
    \/ \E answer \in {"url", "nourl", "rejected"} : UnblockResponse(answer)

\* Every request made is answered or fails in the end (fetchWithRetry gives
\* up after its timeout), and the function body runs on.
SpecUnblock == InitUnblock /\ [][NextUnblock]_vars /\ WF_vars(NextUnblock)

\* ------------------------------------------- the bitrate tiers of a sweep
\* a song of a roster catalog, and one of the primary catalog
RosterSongs == { Song("2", "kuwo", 0) }

PrimarySongs == { Song("1", "netease", 0) }

\* ?types=url answers: those of AggResponses, and a clean url of 50 KB
TierResponses == AggResponses \cup { Resp("url", <<"g","s">>, "128", 50) }

\* The answer to a url lookup of a sweep; the answer is kept, after the
\* calls, as a record of what the environment did.
TierUrlResponse(id, s, q, resp) ==
    /\ sweeps[id].sub[s] = "url" \o q
    /\ Task([searchSingleSource_url(World, id, s, q, resp) EXCEPT
                !.calls = Append(@, [kind |-> "urlAnswer", sweep |-> id,
                                     source |-> s, q |-> q, resp |-> resp])])
    /\ UNCHANGED budget

NextTiers ==
    \/ \E song \in RosterSongs, quality \in Qualities : TryGetFullVersion(song, quality)
    \/ \E id \in DOMAIN sweeps : \E s \in DOMAIN sweeps[id].sub : SearchResponse(id, s)
    \/ \E id \in DOMAIN sweeps : SearchesFail(id)
    \/ \E id \in DOMAIN sweeps : \E s \in DOMAIN sweeps[id].sub :
           \E q \in {"128", "320"}, resp \in TierResponses : TierUrlResponse(id, s, q, resp)
    \/ CoolDown

\* A fresh session: nothing stored, nothing counted.
InitTiers ==
    /\ calls = <<>>
    /\ sweeps = <<>>
    /\ circuit \in InitBreakers
    /\ storage = NoStats
    /\ sourceSuccessCount = ZeroCounts
    /\ sourceFailCount = ZeroCounts
    /\ crossSourceSearchInProgress = {}
    /\ requests = {}
    /\ PlayerIdle
    /\ ProxyIdle
    /\ budget = [calls |-> 1, matches |-> MaxMatches]

SpecTiers == InitTiers /\ [][NextTiers]_vars

\* ------------------------------------------------- playlists and favorites
\* The player module's state as one value.
Player == [mem |-> playlistStorage, counter |-> playlistCounter, store |-> localPlaylists]

CommitPlayer(p) ==
    /\ playlistStorage' = p.mem
    /\ playlistCounter' = p.counter
    /\ localPlaylists' = p.store

\* Map.prototype.set
Put(map, key, value) ==
    [k \in DOMAIN map \cup {key} |-> IF k = key THEN value ELSE map[k]]

Playlist(songs, isFavorites) == [songs |-> songs, isFavorites |-> isFavorites]

\* the item's value: JSON of the map's entries (plain strings and arrays,
\* which stringify and parse give back as they were), or text that does not
\* parse
StoredPlaylists(map) == [data |-> map]

CorruptPlaylists == [corrupt |-> TRUE]

\* parseInt(key.replace('custom_', ''), 10) of the custom keys used here
CustomId(key) == IF key = "custom_0" THEN 0 ELSE 1

\* setItem may throw; the catch logs and goes on
savePlaylistsToStorage(p, writeFails) ==
    IF writeFails THEN p ELSE [p EXCEPT !.store = StoredPlaylists(p.mem)]

\* every stored entry is set into the map; the counter passes every custom id
loadSavedPlaylists(p) ==
    IF p.store = NoPlaylists \/ p.store = CorruptPlaylists THEN p
    ELSE LET data == p.store.data
             ids == {CustomId(k) : k \in DOMAIN data \ {"favorites"}}
             top == IF ids = {} THEN 0
                    ELSE (CHOOSE n \in ids : \A m \in ids : m <= n) + 1
         IN [p EXCEPT !.mem = [k \in DOMAIN p.mem \cup DOMAIN data |->
                                   IF k \in DOMAIN data THEN data[k] ELSE p.mem[k]],
                      !.counter = IF top > @ THEN top ELSE @]

initializeFavoritesPlaylist(p, writeFails) ==
    IF "favorites" \in DOMAIN p.mem THEN p
    ELSE savePlaylistsToStorage(
             [p EXCEPT !.mem = Put(@, "favorites", Playlist(<<>>, TRUE))], writeFails)

\* initPlayer, as far as the playlists go
initPlayer(p, writeFails) ==
    loadSavedPlaylists(initializeFavoritesPlaylist(p, writeFails))

SourceOrNetease(song) == IF song.source = "" THEN "netease" ELSE song.source

\* s.id === song.id && (s.source || 'netease') === (song.source || 'netease')
SameSong(s, song) == s.id = song.id /\ SourceOrNetease(s) = SourceOrNetease(song)

\* Array.prototype.findIndex, 0 for -1
FindIndex(songs, song) ==
    IF \E k \in 1..Len(songs) : SameSong(songs[k], song)
    THEN CHOOSE k \in 1..Len(songs) :
             /\ SameSong(songs[k], song)
             /\ \A j \in 1..(k - 1) : ~SameSong(songs[j], song)
    ELSE 0

\* songs.splice(index, 1)
Splice(songs, index) ==
    SubSeq(songs, 1, index - 1) \o SubSeq(songs, index + 1, Len(songs))

isSongInFavorites(p, song) ==
    /\ "favorites" \in DOMAIN p.mem
    /\ FindIndex(p.mem["favorites"].songs, song) > 0

\* Mutant: the sources are compared as they are, without the default.
toggleFavorite_exactSource(p, song, writeFails) ==
    IF "favorites" \notin DOMAIN p.mem THEN [p |-> p, ret |-> FALSE]
    ELSE LET songs == p.mem["favorites"].songs
             found == {k \in 1..Len(songs) : songs[k] = song}
         IN IF found # {}
            THEN [p |-> savePlaylistsToStorage(
                            [p EXCEPT !.mem["favorites"].songs =
                                 Splice(@, CHOOSE k \in found : \A j \in found : k <= j)],
                            writeFails),
                  ret |-> FALSE]
            ELSE [p |-> savePlaylistsToStorage(
                            [p EXCEPT !.mem["favorites"].songs = <<song>> \o @],
                            writeFails),
                  ret |-> TRUE]

toggleFavorite(p, song, writeFails) ==
    IF "favorites" \notin DOMAIN p.mem THEN [p |-> p, ret |-> FALSE]
    ELSE LET index == FindIndex(p.mem["favorites"].songs, song)
         IN IF index > 0
            THEN [p |-> savePlaylistsToStorage(
                            [p EXCEPT !.mem["favorites"].songs = Splice(@, index)],
                            writeFails),
                  ret |-> FALSE]
            ELSE [p |-> savePlaylistsToStorage(
                            [p EXCEPT !.mem["favorites"].songs = <<song>> \o @],
                            writeFails),
                  ret |-> TRUE]

\* Songs the UI offers: the same primary-catalog song with and without its
\* source tag, and a song of another catalog.
FavSongs ==
    { [id |-> "1", source |-> "netease"], [id |-> "1", source |-> ""],
      [id |-> "2", source |-> "kuwo"] }

\* What an earlier session may have left under the key.
SavedPlaylists ==
    { NoPlaylists, CorruptPlaylists,
      StoredPlaylists(Put(EmptyMap, "favorites",
                          Playlist(<<[id |-> "2", source |-> "kuwo"]>>, TRUE))),
      StoredPlaylists(Put(Put(EmptyMap, "favorites", Playlist(<<>>, TRUE)),
                          "custom_1", Playlist(<<[id |-> "1", source |-> ""]>>, FALSE))),
      StoredPlaylists(Put(EmptyMap, "custom_0",
                          Playlist(<<[id |-> "1", source |-> "netease"]>>, FALSE))) }

\* A fresh process: the module's map is empty, storage is as it was left.
InitPlayerSession ==
    /\ calls = <<>>
    /\ sweeps = <<>>
    /\ circuit = Breaker("CLOSED", 0, FALSE, 0)
    /\ sourceSuccessCount = ZeroCounts
    /\ sourceFailCount = ZeroCounts
    /\ storage = NoStats
    /\ crossSourceSearchInProgress = {}
    /\ requests = {}
    /\ budget = [calls |-> 0, matches |-> 0]
    /\ playlistStorage = EmptyMap
    /\ playlistCounter = 0
    /\ localPlaylists \in SavedPlaylists
    /\ ProxyIdle

apiVars == <<sweeps, circuit, sourceSuccessCount, sourceFailCount, storage,
             crossSourceSearchInProgress, requests, budget>>

\* initPlayer(), once per process; the call keeps what storage held before.
InitPlayer(writeFails) ==
    /\ \A i \in DOMAIN calls : calls[i].kind # "initPlayer"
    /\ CommitPlayer(initPlayer(Player, writeFails))
    /\ calls' = Append(calls, [kind |-> "initPlayer", saved |-> localPlaylists])
    /\ UNCHANGED <<apiVars, proxyVars>>

\* toggleFavorite(song); the last such call is kept with what it returned.
ToggleFavorite(song, writeFails) ==
    LET r == toggleFavorite(Player, song, writeFails)
    IN /\ CommitPlayer(r.p)
       /\ calls' = Append(SelectSeq(calls, LAMBDA c : c.kind # "toggleFavorite"),
                          [kind |-> "toggleFavorite", song |-> song, ret |-> r.ret])
       /\ UNCHANGED <<apiVars, proxyVars>>

NextPlayer ==
    \/ \E writeFails \in BOOLEAN : InitPlayer(writeFails)
    \/ \E song \in FavSongs, writeFails \in BOOLEAN : ToggleFavorite(song, writeFails)

SpecPlayer == InitPlayerSession /\ [][NextPlayer]_vars

\* ------------------------------------- what the aggregator's answers record
\* The aggregator's answer to a search of searchMusicAPI, kept after the
\* calls like the answers to the url lookups.
MusicAggResponse(i, resp) ==
    /\ calls[i].kind = "searchMusic"
    /\ calls[i].pc = "agg"
    /\ Commit([searchMusicAPI_agg(World, i, resp) EXCEPT
                  !.calls = Append(@, [kind |-> "musicAnswer", call |-> i,
                                       resp |-> resp])])
    /\ UNCHANGED budget

NextMarks ==
    \/ \E song \in RosterSongs, quality \in Qualities : TryGetFullVersion(song, quality)
    \/ \E id \in DOMAIN sweeps : \E s \in DOMAIN sweeps[id].sub : SearchResponse(id, s)
    \/ \E id \in DOMAIN sweeps : SearchesFail(id)
    \/ \E id \in DOMAIN sweeps : \E s \in DOMAIN sweeps[id].sub :
           \E q \in {"128", "320"}, resp \in TierResponses : TierUrlResponse(id, s, q, resp)
    \/ \E source \in {"netease", "kuwo"} : SearchMusic(source)
    \/ \E i \in DOMAIN calls, resp \in MusicSearchResponses : MusicAggResponse(i, resp)
    \/ \E i \in DOMAIN calls, ok \in BOOLEAN : SearchMusicNecResponse(i, ok)
    \/ CoolDown

SpecMarks == InitTiers /\ [][NextMarks]_vars

\* ------------------------------------------- a sweep left in the background
\* One getSongUrl call for a primary-catalog song (the only kind whose sweep
\* can be left behind) with everything it may be answered, from a breaker
\* that lets the aggregator lookup through.
InitBackground ==
    /\ calls = <<>>
    /\ sweeps = <<>>
    /\ circuit \in {Breaker("CLOSED", 0, FALSE, 0),
                    Breaker("CLOSED", FailureThreshold - 1, FALSE, 0)}
    /\ InitStats
    /\ crossSourceSearchInProgress = {}
    /\ requests = {}
    /\ PlayerIdle
    /\ ProxyIdle
    /\ budget = [calls |-> 1, matches |-> MaxMatches]

NextBackground ==
    \/ \E song \in PrimarySongs, quality \in Qualities : GetSongUrl(song, quality)
    \/ \E i \in DOMAIN calls, resp \in PrimaryResponses : PrimaryResponse(i, resp)
    \/ \E i \in DOMAIN calls, resp \in AggResponses : AggResponse(i, resp)
    \/ \E id \in DOMAIN sweeps : \E s \in DOMAIN sweeps[id].sub : SearchResponse(id, s)
    \/ \E id \in DOMAIN sweeps : SearchesFail(id)
    \/ \E id \in DOMAIN sweeps : \E s \in DOMAIN sweeps[id].sub :
           \E q \in {"128", "320"}, resp \in AggResponses : UrlResponse(id, s, q, resp)
    \/ CoolDown

\* The responses a running sweep waits for.
SweepSteps ==
    \/ \E id \in DOMAIN sweeps : \E s \in DOMAIN sweeps[id].sub : SearchResponse(id, s)
    \/ \E id \in DOMAIN sweeps : SearchesFail(id)
    \/ \E id \in DOMAIN sweeps : \E s \in DOMAIN sweeps[id].sub :
           \E q \in {"128", "320"}, resp \in AggResponses : UrlResponse(id, s, q, resp)

\* A sweep's Promise.allSettled is pending: some request of it is unanswered.
SweepAwaits == \E id \in DOMAIN sweeps : sweeps[id].phase = "running"

\* Every request made is answered or times out in the end, so a pending
\* response is always delivered: weak fairness of the sweep's responses,
\* WF_vars(SweepSteps), written with SweepAwaits for ENABLED <<SweepSteps>>_vars.
SpecBackground ==
    /\ InitBackground
    /\ [][NextBackground]_vars
    /\ ([]<>~SweepAwaits \/ []<><<SweepSteps>>_vars)

\* ------------------------------------------------------------- the proxy
\* A url parameter is a sequence of items: a scheme, host labels, "." and "/"
\* as themselves, "%2F" an escaped "/", "%" a percent sign no escape follows.
RATE_LIMIT == [windowMs |-> 60 * 1000, maxRequests |-> 60]

ALLOWED_HOSTS ==
    { <<"music-api", "gdstudio", "xyz">>, <<"api", "injahow", "cn">>,
      <<"api", "i-meto", "com">>, <<"w7z", "indevs", "in">>,
      <<"netease-cloud-music-api-psi-three", "vercel", "app">>,
      <<"netease-cloud-music-api-five-roan", "vercel", "app">>,
      <<"y", "qq", "com">>,
      <<"music", "163", "com">>, <<"interface", "music", "163", "com">>,
      <<"music", "126", "net">>, <<"m7", "music", "126", "net">>,
      <<"m8", "music", "126", "net">>, <<"m701", "music", "126", "net">>,
      <<"m801", "music", "126", "net">>, <<"p1", "music", "126", "net">>,
      <<"p2", "music", "126", "net">>,
      <<"dl", "stream", "qqmusic", "qq", "com">>,
      <<"ws", "stream", "qqmusic", "qq", "com">>,
      <<"isure", "stream", "qqmusic", "qq", "com">>,
      <<"trackercdn", "kugou", "com">>, <<"webfs", "tx", "kugou", "com">>,
      <<"freetyst", "nf", "migu", "cn">>,
      <<"sycdn", "kuwo", "cn">>,
      <<"other", "web", "nf01", "sycdn", "kuwo", "cn">>,
      <<"other", "web", "ra01", "sycdn", "kuwo", "cn">>,
      <<"joox", "com">>, <<"api", "joox", "com">>,
      <<"ximalaya", "com">>, <<"fdfs", "xmcdn", "com">>,
      <<"aod", "cos", "tx", "xmcdn", "com">> }

NETEASE_COOKIE_HOSTS ==
    { <<"music", "163", "com">>,
      <<"netease-cloud-music-api-psi-three", "vercel", "app">>,
      <<"netease-cloud-music-api-five-roan", "vercel", "app">>,
      <<"w7z", "indevs", "in">> }

\* hostname === host || hostname.endsWith('.' + host), on label sequences
EndsWith(hostname, host) ==
    /\ Len(hostname) > Len(host)
    /\ \A k \in 1..Len(host) : hostname[Len(hostname) - Len(host) + k] = host[k]

HostMatches(hostname, hosts) ==
    \E host \in hosts : hostname = host \/ EndsWith(hostname, host)

\* hostname.includes(key)
HostIncludes(hostname, key) ==
    \E k \in 0..(Len(hostname) - Len(key)) :
        \A j \in 1..Len(key) : hostname[k + j] = key[j]

\* decodeURIComponent: a URIError on a percent sign that starts no escape,
\* else every escape replaced by its character
decodeURIComponent(param) ==
    IF \E k \in 1..Len(param) : param[k] = "%"
    THEN [thrown |-> TRUE, text |-> <<>>]
    ELSE [thrown |-> FALSE,
          text   |-> [k \in 1..Len(param) |->
                         IF param[k] = "%2F" THEN "/" ELSE param[k]]]

\* the URL parser lower-cases the host
HostLower(label) ==
    CASE label = "MUSIC" -> "music"
      [] label = "COM" -> "com"
      [] OTHER -> label

\* the items of the authority: up to the first "/"
RECURSIVE Authority(_)
Authority(items) ==
    IF items = <<>> \/ Head(items) = "/" THEN <<>>
    ELSE <<Head(items)>> \o Authority(Tail(items))

\* new URL(text): a TypeError unless a scheme comes first and the authority
\* is labels joined by dots; else the parsed hostname
ParseUrl(text) ==
    IF text = <<>> \/ Head(text) # "https://"
    THEN [thrown |-> TRUE, hostname |-> <<>>]
    ELSE LET auth == Authority(Tail(text))
             ok   == /\ Len(auth) % 2 = 1
                     /\ \A k \in 1..Len(auth) :
                            IF k % 2 = 0 THEN auth[k] = "."
                            ELSE auth[k] \notin {".", " ", "https://"}
         IN IF ok
            THEN [thrown   |-> FALSE,
                  hostname |-> [k \in 1..((Len(auth) + 1) \div 2) |->
                                   HostLower(auth[2 * k - 1])]]
            ELSE [thrown |-> TRUE, hostname |-> <<>>]

checkRateLimit_stale(store, ip, t) ==
    LET fresh == ip \notin DOMAIN store
                 \/ t - store[ip].windowStart >= RATE_LIMIT.windowMs
    IN IF fresh
       THEN [store   |-> [k \in DOMAIN store \cup {ip} |->
                             IF k = ip THEN [windowStart |-> t, count |-> 1]
                             ELSE store[k]],
             allowed |-> TRUE]
       ELSE [store   |-> [store EXCEPT ![ip].count = @ + 1],
             allowed |-> store[ip].count + 1 <= RATE_LIMIT.maxRequests]

checkRateLimit(store, ip, t) ==
    LET fresh == ip \notin DOMAIN store
                 \/ t - store[ip].windowStart > RATE_LIMIT.windowMs
    IN IF fresh
       THEN [store   |-> [k \in DOMAIN store \cup {ip} |->
                             IF k = ip THEN [windowStart |-> t, count |-> 1]
                             ELSE store[k]],
             allowed |-> TRUE]
       ELSE [store   |-> [store EXCEPT ![ip].count = @ + 1],
             allowed |-> store[ip].count + 1 <= RATE_LIMIT.maxRequests]

\* What onRequest answers and does.  status 0 with thrown: the handler's
\* promise rejects and no Response is built.  fetch is the upstream request
\* made, NULL when none; upstream is what the upstream answers.
Answer(store, status, fetch, thrown) ==
    [store |-> store, status |-> status, fetch |-> fetch, thrown |-> thrown]

onRequest(store, t, header, param, vipCookie, upstream) ==
    IF ~param.present \/ param.text = <<>>
    THEN Answer(store, 400, NULL, FALSE)
    ELSE LET decodedUrl == decodeURIComponent(param.text)
         IN IF decodedUrl.thrown
            THEN Answer(store, 0, NULL, TRUE)
            ELSE LET clientIp == IF header = "" THEN "unknown" ELSE header
                     rate == checkRateLimit(store, clientIp, t)
                 IN IF ~rate.allowed
                    THEN Answer(rate.store, 429, NULL, FALSE)
                    ELSE LET parsedTarget == ParseUrl(decodedUrl.text)
                         IN IF parsedTarget.thrown
                            THEN Answer(rate.store, 500, NULL, FALSE)
                            ELSE IF ~HostMatches(parsedTarget.hostname, ALLOWED_HOSTS)
                            THEN Answer(rate.store, 403, NULL, FALSE)
                            ELSE LET isNeteaseHost ==
                                         HostMatches(parsedTarget.hostname,
                                                     NETEASE_COOKIE_HOSTS)
                                     withCookie == vipCookie /\ isNeteaseHost
                                     inQuery ==
                                         /\ withCookie
                                         /\ \/ HostIncludes(parsedTarget.hostname,
                                                            <<"w7z", "indevs", "in">>)
                                            \/ HostIncludes(parsedTarget.hostname,
                                                            <<"i-meto", "com">>)
                                            \/ HostIncludes(parsedTarget.hostname,
                                                            <<"vercel", "app">>)
                                     fetch == [hostname |-> parsedTarget.hostname,
                                               cookie   |-> withCookie,
                                               query    |-> inQuery]
                                 IN Answer(rate.store,
                                           IF upstream.ok THEN upstream.status ELSE 500,
                                           fetch, FALSE)

\* CF-Connecting-IP of the requests followed; "": the header is absent
ClientIps == {"1.1.1.1", ""}

\* searchParams.get('url'): null, or the parameter's text
NoParam == [present |-> FALSE, text |-> <<>>]

Param(text) == [present |-> TRUE, text |-> text]

Url(host) == Param(<<"https://">> \o host)

ProxyTargets ==
    { NoParam, Param(<<>>), Param(<<"%">>),
      Param(<<"music", ".", "163", ".", "com">>),
      Url(<<"music", ".", "163", ".", "com", "/", "x">>),
      Url(<<"MUSIC", ".", "163", ".", "COM">>),
      Url(<<"interface", ".", "music", ".", "163", ".", "com">>),
      Url(<<"x", ".", "joox", ".", "com">>),
      Url(<<"y", ".", "qq", ".", "com">>),
      Url(<<"w7z", ".", "indevs", ".", "in">>),
      Url(<<"163", ".", "com">>),
      Url(<<"music", ".", "163", ".", "com", ".", "evil", ".", "com">>),
      Url(<<"evil", ".", "com", "%2F", ".", "music", ".", "163", ".", "com">>) }

RateTargets == { NoParam, Url(<<"y", ".", "qq", ".", "com">>) }

\* the upstream answers, or the fetch rejects
Upstreams == { [ok |-> TRUE, status |-> 200], [ok |-> TRUE, status |-> 404],
               [ok |-> FALSE, status |-> 0] }

\* One request handled.  The limiter is read and written before the handler's
\* only await (the upstream fetch), and nothing after it touches the store,
\* so the handler is one step.  The last request and its answer are kept.
OnRequest(header, param, vipCookie, upstream) ==
    /\ LET clientIp == IF header = "" THEN "unknown" ELSE header
       IN clientIp \in DOMAIN rateLimitStore
          => \/ rateLimitStore[clientIp].count
                    < (IF header = "" THEN MaxUnknown ELSE MaxBurst)
             \/ now - rateLimitStore[clientIp].windowStart > RATE_LIMIT.windowMs
    /\ LET a == onRequest(rateLimitStore, now, header, param, vipCookie, upstream)
       IN /\ rateLimitStore' = a.store
          /\ calls' = << [kind |-> "onRequest", header |-> header, url |-> param,
                          env |-> vipCookie, at |-> now, status |-> a.status,
                          fetch |-> a.fetch, thrown |-> a.thrown] >>
    /\ UNCHANGED <<now, apiVars, playerVars>>

\* Date.now() moves on
Tick(d) ==
    /\ now + d <= MaxNow
    /\ now' = now + d
    /\ UNCHANGED <<rateLimitStore, calls, apiVars, playerVars>>

Ticks == {RATE_LIMIT.windowMs, RATE_LIMIT.windowMs + 1}

InitProxy ==
    /\ calls = <<>>
    /\ sweeps = <<>>
    /\ circuit = Breaker("CLOSED", 0, FALSE, 0)
    /\ sourceSuccessCount = ZeroCounts
    /\ sourceFailCount = ZeroCounts
    /\ storage = NoStats
    /\ crossSourceSearchInProgress = {}
    /\ requests = {}
    /\ PlayerIdle
    /\ ProxyIdle
    /\ budget = [calls |-> 0, matches |-> 0]

NextRateLimit ==
    \/ \E header \in ClientIps, param \in RateTargets :
           OnRequest(header, param, FALSE, [ok |-> TRUE, status |-> 200])
    \/ \E d \in Ticks : Tick(d)

SpecRateLimit == InitProxy /\ [][NextRateLimit]_vars

\* A proxy instance that has served 58 requests of one client in the window
\* begun at 0 (a state SpecRateLimit reaches) and none of the clients without
\* a header; the requests that follow arrive within that window.
InitProxyBusy ==
    /\ calls = <<>>
    /\ sweeps = <<>>
    /\ circuit = Breaker("CLOSED", 0, FALSE, 0)
    /\ sourceSuccessCount = ZeroCounts
    /\ sourceFailCount = ZeroCounts
    /\ storage = NoStats
    /\ crossSourceSearchInProgress = {}
    /\ requests = {}
    /\ PlayerIdle
    /\ now = 0
    /\ rateLimitStore = [ip \in {"1.1.1.1"} |->
                            [windowStart |-> 0, count |-> RATE_LIMIT.maxRequests - 2]]
    /\ budget = [calls |-> 0, matches |-> 0]

NextProxy ==
    \E header \in ClientIps, param \in ProxyTargets, vipCookie \in BOOLEAN,
       upstream \in Upstreams : OnRequest(header, param, vipCookie, upstream)

SpecProxy == InitProxyBusy /\ [][NextProxy]_vars

\* ================================================================= claims
GetSongUrlCalls == {i \in DOMAIN calls : calls[i].kind = "getSongUrl"}

GuardCallIds == {i \in DOMAIN calls : calls[i].kind = "tryGetFull"}

\* the sweep a getSongUrl call started, NULL-safe
SweepRet(c) == IF c.sweep = 0 THEN NULL ELSE sweeps[c.sweep].ret

\* the call got a result it returned directly
ReturnedDirect(c) == c.primary = "full" \/ c.agg = "full"

\* C1: getSongUrl never throws, whatever the upstream outcomes (stats save
\* failing included); a finished call has returned a result, and when neither
\* the primary lookup, the aggregator lookup nor the sweep gave a URL, that
\* result is the sentinel {url: '', br: quality}.
C1_NeverThrowsSentinel ==
    \A i \in GetSongUrlCalls :
        LET c == calls[i]
        IN /\ ~c.threw
           /\ c.pc = "done" => c.ret # NULL
           /\ (c.pc = "done" /\ c.primRes = NULL /\ c.aggRes = NULL
                 /\ SweepRet(c) = NULL)
                => c.ret = [url |-> <<>>, br |-> c.quality, size |-> 0, source |-> ""]

\* a call whose every source failed, the breaker closed
C1_Witness ==
    \E i \in GetSongUrlCalls :
        /\ calls[i].pc = "done"
        /\ calls[i].primary = "fail"
        /\ calls[i].agg = "fail"
        /\ calls[i].ret.url = <<>>

\* C2: primary catalog first, then the aggregator.  While the primary lookup
\* is outstanding nothing else has been asked; a non-preview primary result is
\* returned at once, with no aggregator lookup and no sweep; a non-preview
\* aggregator result is returned at once, a started sweep notwithstanding.
C2_OrderAndImmediateReturn ==
    \A i \in GetSongUrlCalls :
        LET c == calls[i]
        IN /\ (SourceOf(c.song) = "netease" /\ c.pc = "primary")
                => (c.agg = "none" /\ c.sweep = 0)
           /\ c.primary = "full"
                => (c.pc = "done" /\ c.ret = c.primRes /\ c.agg = "none" /\ c.sweep = 0)
           /\ c.agg = "full" => (c.pc = "done" /\ c.ret = c.aggRes)
           /\ (c.primary = "full" \/ c.agg = "full")
                => ~isProbablyPreview(c.ret.url, c.ret.size,
                                      IF c.agg = "full" THEN c.song.duration ELSE 0)

\* the aggregator's full result returned while the sweep is still running
C2_Witness ==
    \E i \in GetSongUrlCalls :
        /\ calls[i].primary = "preview"
        /\ calls[i].agg = "full"
        /\ calls[i].pc = "done"
        /\ sweeps[calls[i].sweep].phase = "running"

\* C3: when a sweep was started and neither direct lookup gave a non-preview
\* result, the call does not finish before the sweep has, and a non-null sweep
\* result is what it returns, whatever was stashed.
C3_SweepAwaitedAndPreferred ==
    \A i \in GetSongUrlCalls :
        LET c == calls[i]
        IN (c.pc = "done" /\ c.sweep # 0 /\ ~ReturnedDirect(c))
             => /\ sweeps[c.sweep].phase = "done"
                /\ sweeps[c.sweep].ret # NULL => c.ret = sweeps[c.sweep].ret

\* a sweep result returned over a stashed preview
C3_Witness ==
    \E i \in GetSongUrlCalls :
        /\ calls[i].pc = "done"
        /\ Len(calls[i].candidates) > 0
        /\ calls[i].sweep # 0
        /\ sweeps[calls[i].sweep].ret # NULL
        /\ calls[i].ret = sweeps[calls[i].sweep].ret

\* C4: with no non-preview direct result and no sweep result, the call returns
\* the primary catalog's preview if one was stashed, otherwise the
\* aggregator's, and the sentinel only when nothing was stashed.
C4_FirstStashedElseSentinel ==
    \A i \in GetSongUrlCalls :
        LET c == calls[i]
        IN (c.pc = "done" /\ ~ReturnedDirect(c) /\ SweepRet(c) = NULL)
             => /\ c.primary = "preview" => c.ret = c.primRes
                /\ (c.primary # "preview" /\ c.agg = "preview") => c.ret = c.aggRes
                /\ (c.ret.url = <<>>) <=> (c.primary # "preview" /\ c.agg # "preview")
                /\ (c.ret.url = <<>>) => c.ret = Sentinel(c.quality)

\* both lookups gave a preview, the sweep nothing: the primary's is returned
C4_Witness ==
    \E i \in GetSongUrlCalls :
        /\ calls[i].pc = "done"
        /\ calls[i].primary = "preview"
        /\ calls[i].agg = "preview"
        /\ calls[i].primRes # calls[i].aggRes
        /\ sweeps[calls[i].sweep].ret = NULL
        /\ calls[i].ret = calls[i].primRes

\* C5: a primary-catalog song, a primary result classified preview, the
\* breaker refusing execution (OPEN, cool-down not elapsed) when that result
\* arrives: no direct aggregator lookup is made, the sweep is run, and as it
\* yields nothing the stashed preview is returned, not the sentinel.
C5_PreviewWithOpenBreaker ==
    \A i \in GetSongUrlCalls :
        LET c == calls[i]
        IN (SourceOf(c.song) = "netease" /\ c.primary = "preview" /\ c.denied)
             => /\ c.agg \in {"skipped", "refused"}
                /\ c.sweep # 0
                /\ sweeps[c.sweep].phase = "done"
                /\ c.pc = "done"
                /\ sweeps[c.sweep].ret = NULL => (c.ret = c.primRes /\ c.ret.url # <<>>)

\* the scenario: preview of 50 KB from the primary catalog, breaker OPEN
C5_Witness ==
    \E i \in GetSongUrlCalls :
        /\ calls[i].primary = "preview"
        /\ calls[i].denied
        /\ circuit.state = "OPEN"
        /\ calls[i].primRes.size = 51200
        /\ calls[i].pc = "done"
        /\ calls[i].ret = calls[i].primRes
        /\ requests = {}

RECURSIVE FirstSuccess(_, _)
FirstSuccess(sw, k) ==
    IF k > Len(sw.order) THEN 0
    ELSE IF sw.res[sw.order[k]] # NULL THEN k
    ELSE FirstSuccess(sw, k + 1)

\* C7: a sweep finishes only when every per-source search has settled, and
\* what it returns is fixed by the per-source results and the priority order
\* alone: the result of the highest-priority source that has one, null when
\* none has; the order in which the searches completed plays no part.
C7_PriorityNotArrival ==
    \A id \in DOMAIN sweeps :
        LET sw == sweeps[id]
        IN sw.phase # "running"
             => /\ \A s \in DOMAIN sw.sub : sw.sub[s] = "done"
                /\ sw.ret = NULL <=> \A s \in DOMAIN sw.res : sw.res[s] = NULL
                /\ sw.ret # NULL
                     => \E k \in 1..Len(sw.order) :
                            /\ sw.ret = sw.res[sw.order[k]]
                            /\ \A j \in 1..(k - 1) : sw.res[sw.order[j]] = NULL

\* two sources succeeded; the one that answered first is not the one returned
C7_Witness ==
    \E id \in DOMAIN sweeps :
        /\ sweeps[id].phase = "done"
        /\ sweeps[id].ret # NULL
        /\ sweeps[id].first # sweeps[id].ret.source
        /\ sweeps[id].order # Filter(FALLBACK_SOURCES, sweeps[id].exclude)

\* the sweep id finishes in this step
Finishes(id) ==
    /\ id \in DOMAIN sweeps'
    /\ sweeps'[id].phase # "running"
    /\ id \in DOMAIN sweeps => sweeps[id].phase = "running"

Persisted ==
    \/ storage' = [success |-> sourceSuccessCount', fail |-> sourceFailCount']
    \/ storage' = storage

\* C8 as stated: when a sweep completes, every source it queried has its
\* successCount raised by one if it gave a result and its failCount raised by
\* one otherwise, and the stats are saved.
C8_EverySourceCounted ==
    [][\A id \in DOMAIN sweeps' :
          Finishes(id) =>
              /\ \A s \in DOMAIN sweeps'[id].sub :
                    /\ sourceSuccessCount'[s] = sourceSuccessCount[s]
                          + (IF sweeps'[id].res[s] # NULL THEN 1 ELSE 0)
                    /\ sourceFailCount'[s] = sourceFailCount[s]
                          + (IF sweeps'[id].res[s] = NULL THEN 1 ELSE 0)
              /\ Persisted]_vars

\* C8 amended: when a sweep completes, the counters move for the sources up to
\* the first success in priority order only: failCount + 1 for each source
\* ranked before it (for every queried source when none succeeded),
\* successCount + 1 for that first success; every other counter is unchanged;
\* then the stats are written to storage (a failing write is swallowed and
\* leaves the stored value as it was).
C8_CountedUpToFirstSuccess ==
    [][\A id \in DOMAIN sweeps' :
          Finishes(id) =>
              LET sw == sweeps'[id]
                  win == FirstSuccess(sw, 1)
                  failed == {sw.order[k] : k \in 1..(IF win = 0 THEN Len(sw.order)
                                                    ELSE win - 1)}
              IN /\ \A s \in Sources :
                       /\ sourceSuccessCount'[s] = sourceSuccessCount[s]
                             + (IF win # 0 /\ s = sw.order[win] THEN 1 ELSE 0)
                       /\ sourceFailCount'[s] = sourceFailCount[s]
                             + (IF s \in failed THEN 1 ELSE 0)
                 /\ Persisted]_vars

\* a finished sweep in which a source ranked after the winner had a result too,
\* and whose counters reached storage
C8_Witness ==
    \E id \in DOMAIN sweeps :
        LET sw == sweeps[id]
        IN /\ sw.phase = "done"
           /\ sw.ret # NULL
           /\ \E s \in DOMAIN sw.res : sw.res[s] # NULL /\ sw.res[s] # sw.ret
           /\ storage = [success |-> sourceSuccessCount, fail |-> sourceFailCount]

\* the guard call made in this step
IsNewGuardCall(j) ==
    /\ Len(calls') = Len(calls) + 1
    /\ j = Len(calls')
    /\ calls'[j].kind = "tryGetFull"

\* C9: a call of tryGetFullVersionFromOtherSources made while another call
\* with the same (id, source) key is in flight returns null at once and starts
\* no sweep, so only one sweep per key is ever running; a call whose key no
\* call in flight holds starts a sweep, whatever other keys are in flight.
C9_OneSweepPerKey ==
    [][\A j \in DOMAIN calls' :
          IsNewGuardCall(j) =>
              IF \E i \in GuardCallIds :
                     calls[i].pc # "done" /\ KeyOf(calls[i].song) = KeyOf(calls'[j].song)
              THEN /\ calls'[j].pc = "done"
                   /\ calls'[j].ret = NULL
                   /\ calls'[j].sweep = 0
                   /\ sweeps' = sweeps
              ELSE /\ Len(sweeps') = Len(sweeps) + 1
                   /\ calls'[j].sweep = Len(sweeps')]_vars

\* a duplicate turned away while the first call's sweep is still running
C9_Witness ==
    \E i, j \in GuardCallIds :
        /\ i < j
        /\ KeyOf(calls[i].song) = KeyOf(calls[j].song)
        /\ calls[i].pc = "sweep"
        /\ sweeps[calls[i].sweep].phase = "running"
        /\ calls[j].pc = "done"
        /\ calls[j].sweep = 0
        /\ calls[j].ret = NULL
        /\ Len(sweeps) = 1

\* C10: crossSourceSearchInProgress holds a key exactly while a call that
\* started a sweep for it has not finished: it is removed when that call ends
\* with a result or with null, a duplicate that was turned away leaves it in
\* place, and once the call has ended the key is free again.
C10_KeyHeldWhileInFlight ==
    /\ crossSourceSearchInProgress
          = {KeyOf(calls[i].song) : i \in {j \in GuardCallIds : calls[j].pc # "done"}}
    /\ \A i \in GuardCallIds : calls[i].pc # "done" => calls[i].sweep # 0

\* after a call has ended, a second call with the same key runs a sweep again
C10_Witness ==
    \E i, j \in GuardCallIds :
        /\ i < j
        /\ KeyOf(calls[i].song) = KeyOf(calls[j].song)
        /\ calls[i].pc = "done"
        /\ calls[i].sweep # 0
        /\ calls[j].pc = "sweep"
        /\ calls[j].sweep # 0
        /\ KeyOf(calls[j].song) \in crossSourceSearchInProgress

\* C11: when two getSongUrl calls for the same song (same id and source)
\* overlap and both reach the preview branch, at most one cross-catalog sweep
\* for that song is in flight at any time.
C11_OneSweepPerSongInFlight ==
    \A i, j \in GetSongUrlCalls :
        (/\ i < j
         /\ KeyOf(calls[i].song) = KeyOf(calls[j].song)
         /\ calls[i].sweep # 0
         /\ calls[j].sweep # 0)
            => ~(/\ sweeps[calls[i].sweep].phase = "running"
                 /\ sweeps[calls[j].sweep].phase = "running")

\* position of s in the roster
RosterPos(s) == CHOOSE k \in 1..Len(FALLBACK_SOURCES) : FALLBACK_SOURCES[k] = s

\* C12: for every excluded source x and every assignment of success counts,
\* getSortedFallbackSources(x) returns exactly the roster's sources other than
\* x, each once, in order of non-increasing success count, equal counts in
\* roster order; and the counters are left as they were.
C12_RosterMinusExcludedSorted ==
    [][\A j \in DOMAIN calls' :
          (j > Len(calls) /\ calls'[j].kind = "getSortedFallbackSources") =>
              LET r == calls'[j].ret
                  x == calls'[j].excludeSource
                  n == sourceSuccessCount
              IN /\ {r[k] : k \in 1..Len(r)} = Sources \ {x}
                 /\ Len(r) = Cardinality(Sources \ {x})
                 /\ \A k \in 1..(Len(r) - 1) :
                       \/ n[r[k]] > n[r[k + 1]]
                       \/ /\ n[r[k]] = n[r[k + 1]]
                          /\ RosterPos(r[k]) < RosterPos(r[k + 1])
                 /\ sourceSuccessCount' = sourceSuccessCount
                 /\ sourceFailCount' = sourceFailCount]_vars

\* a roster source excluded, the counts reorder the rest, and a tie is kept in
\* roster order
C12_Witness ==
    \E j \in DOMAIN calls :
        /\ calls[j].kind = "getSortedFallbackSources"
        /\ calls[j].excludeSource \in Sources
        /\ calls[j].ret # Filter(FALLBACK_SOURCES, calls[j].excludeSource)
        /\ \E k \in 1..(Len(calls[j].ret) - 1) :
              /\ sourceSuccessCount[calls[j].ret[k]] = sourceSuccessCount[calls[j].ret[k + 1]]
              /\ sourceSuccessCount[calls[j].ret[k]] > 0

\* C13 as stated: across getSongUrl, sweep, saveSourceStats and
\* loadSourceStats operations no source's successCount or failCount ever
\* decreases, and a sweep changes any single counter by at most 1.
C13_StatsMonotonic ==
    [][\A s \in Sources :
          /\ sourceSuccessCount'[s] >= sourceSuccessCount[s]
          /\ sourceFailCount'[s] >= sourceFailCount[s]
          /\ sourceSuccessCount'[s] <= sourceSuccessCount[s] + 1
          /\ sourceFailCount'[s] <= sourceFailCount[s] + 1]_vars

\* C13 amended: a step of getSongUrl, of a sweep or of saveSourceStats never
\* lowers a counter, and a sweep raises any single counter by at most 1;
\* loadSourceStats sets each counter the store holds to its stored value and
\* leaves the others, so it changes nothing when the store holds the last
\* values saved, and lowers a counter only when a save has failed since.
C13_MonotonicExceptStaleLoad ==
    [][/\ (sweeps' # sweeps \/ calls' # calls) =>
            \A s \in Sources :
                /\ sourceSuccessCount'[s] \in {sourceSuccessCount[s],
                                               sourceSuccessCount[s] + 1}
                /\ sourceFailCount'[s] \in {sourceFailCount[s], sourceFailCount[s] + 1}
       /\ (sweeps' = sweeps /\ calls' = calls) =>
            \A s \in Sources :
                /\ sourceSuccessCount'[s] \in
                      {sourceSuccessCount[s]} \cup
                      (IF storage # NoStats /\ storage.success[s] # 0
                       THEN {storage.success[s]} ELSE {})
                /\ sourceFailCount'[s] \in
                      {sourceFailCount[s]} \cup
                      (IF storage # NoStats /\ storage.fail[s] # 0
                       THEN {storage.fail[s]} ELSE {})
       /\ storage = [success |-> sourceSuccessCount, fail |-> sourceFailCount]
            => \A s \in Sources :
                  /\ sourceSuccessCount'[s] >= sourceSuccessCount[s]
                  /\ sourceFailCount'[s] >= sourceFailCount[s]]_vars

\* a sweep won by migu, whose count of 2 was loaded at startup: the save after
\* the sweep failed and a later loadSourceStats has put the count back to 2
C13_Witness ==
    \E id \in DOMAIN sweeps :
        /\ sweeps[id].phase = "done"
        /\ sweeps[id].ret # NULL
        /\ sweeps[id].ret.source = "migu"
        /\ storage # NoStats
        /\ storage.success["migu"] = 2
        /\ sourceSuccessCount["migu"] = 2

\* the breaker operation made in this step, "" when none
OpNow ==
    IF Len(calls') = Len(calls) + 1 /\ calls'[Len(calls')].kind = "breaker"
    THEN calls'[Len(calls')].op ELSE ""

\* recordFailure() calls at the end of h with no recordSuccess() among them
RECURSIVE ConsecutiveFailures(_)
ConsecutiveFailures(h) ==
    IF h = <<>> THEN 0
    ELSE LET last == h[Len(h)]
             rest == SubSeq(h, 1, Len(h) - 1)
         IN IF last.op = "recordSuccess" THEN 0
            ELSE IF last.op = "recordFailure" THEN ConsecutiveFailures(rest) + 1
            ELSE ConsecutiveFailures(rest)

\* C14: a recordFailure() on a CLOSED breaker that completes failureThreshold
\* consecutive failures (no recordSuccess() among them) opens it, and fewer
\* leave it CLOSED with canExecute() true; an OPEN breaker stays OPEN and
\* canExecute() answers false until the cool-down has elapsed.
C14_OpensAtThreshold ==
    [][/\ (OpNow = "recordFailure" /\ circuit.state = "CLOSED") =>
            IF ConsecutiveFailures(calls') >= FailureThreshold
            THEN circuit'.state = "OPEN" /\ ~canExecute(circuit').ok
            ELSE circuit'.state = "CLOSED" /\ canExecute(circuit').ok
       /\ (circuit.state = "OPEN" /\ ~circuit.cooled /\ circuit'.cooled = circuit.cooled) =>
            /\ circuit'.state = "OPEN"
            /\ ~canExecute(circuit').ok
            /\ OpNow = "canExecute" => ~calls'[Len(calls')].ok
       /\ (OpNow = "canExecute" /\ circuit.state = "CLOSED") =>
            calls'[Len(calls')].ok /\ circuit'.state = "CLOSED"]_vars

\* a failure, a success, then three failures: open, and canExecute() refused
C14_Witness ==
    /\ Len(calls) = 6
    /\ \A k \in 1..6 : calls[k].kind = "breaker"
    /\ calls[2].op = "recordSuccess"
    /\ \A k \in {1, 3, 4, 5} : calls[k].op = "recordFailure"
    /\ calls[6].op = "canExecute" /\ ~calls[6].ok
    /\ circuit.state = "OPEN"

\* C15: once the cool-down has elapsed in OPEN, the first canExecute() is
\* allowed and moves to HALF_OPEN, and every further canExecute() made before
\* an outcome is recorded is refused: exactly one trial call.  recordSuccess()
\* in HALF_OPEN gives CLOSED with the failure counter zeroed (it then takes
\* failureThreshold failures to open again); recordFailure() in HALF_OPEN
\* gives OPEN with the cool-down restarted.
C15_OneTrialThenCloseOrReopen ==
    [][/\ (OpNow = "canExecute" /\ circuit.state = "OPEN" /\ circuit.cooled) =>
            calls'[Len(calls')].ok /\ circuit'.state = "HALF_OPEN"
       /\ (OpNow = "canExecute" /\ circuit.state = "HALF_OPEN") =>
            ~calls'[Len(calls')].ok /\ circuit'.state = "HALF_OPEN"
       /\ (OpNow = "recordSuccess" /\ circuit.state = "HALF_OPEN") =>
            /\ circuit'.state = "CLOSED"
            /\ circuit'.failures = 0
            /\ canExecute(circuit').ok
       /\ (OpNow = "recordFailure" /\ circuit.state = "HALF_OPEN") =>
            /\ circuit'.state = "OPEN"
            /\ ~circuit'.cooled
            /\ ~canExecute(circuit').ok]_vars

\* after the cool-down, two callers ask before any outcome: one trial, one refusal
C15_Witness ==
    /\ Len(calls) >= 5
    /\ \A k \in 1..5 : calls[k].kind = "breaker"
    /\ calls[4].op = "canExecute" /\ calls[4].ok
    /\ calls[5].op = "canExecute" /\ ~calls[5].ok
    /\ circuit.state = "HALF_OPEN"

\* the finished parseLyrics call, if any
ParsedCalls ==
    {i \in DOMAIN calls : calls[i].kind = "parseLyrics" /\ calls[i].pc = "done"}

TagCount(line) == Cardinality({k \in 1..Len(line) : IsTag(line[k])})

\* some character of the line other than a tag's is not a blank
HasText(line) == \E k \in 1..Len(line) : IsChar(line[k]) /\ line[k].ch # " "

RECURSIVE SumOver(_, _, _)
SumOver(lines, k, countBlank) ==
    IF k > Len(lines) THEN 0
    ELSE (IF countBlank \/ HasText(lines[k]) THEN TagCount(lines[k]) ELSE 0)
             + SumOver(lines, k + 1, countBlank)

SortedByTime(r) == \A k \in 1..(Len(r) - 1) : r[k].time <= r[k + 1].time

\* C16 as stated: for an LRC text with N well-formed timestamp tags,
\* parseLyrics returns exactly N lines, sorted by non-decreasing time.
C16_OneLinePerTag ==
    \A i \in ParsedCalls :
        /\ Len(calls[i].ret) = SumOver(calls[i].lrc, 1, TRUE)
        /\ SortedByTime(calls[i].ret)

\* C16 amended: parseLyrics returns one line per well-formed tag standing on
\* a line of the text that has non-blank text left once its tags are removed;
\* the tags of lines with no such text give no line.  The result is sorted by
\* non-decreasing time.
C16_OneLinePerTagWithText ==
    \A i \in ParsedCalls :
        /\ Len(calls[i].ret) = SumOver(calls[i].lrc, 1, FALSE)
        /\ SortedByTime(calls[i].ret)

\* a later tag on the first line, an earlier one on the second, and a tag on
\* a line without text: two lines returned, in time order
C16_Witness ==
    \E i \in ParsedCalls :
        /\ Len(calls[i].lrc) = 2
        /\ SumOver(calls[i].lrc, 1, TRUE) = 3
        /\ ~HasText(calls[i].lrc[1]) \/ ~HasText(calls[i].lrc[2])
        /\ Len(calls[i].ret) = 2
        /\ calls[i].ret[1].time < calls[i].ret[2].time
        /\ \E k \in 1..Len(calls[i].lrc[1]), j \in 1..Len(calls[i].lrc[2]) :
              /\ IsTag(calls[i].lrc[1][k]) /\ IsTag(calls[i].lrc[2][j])
              /\ TagTime(calls[i].lrc[1][k]) > TagTime(calls[i].lrc[2][j])

\* the translation entries in the order the merge handles them
TranslationEntries(i) == parseLines(calls[i].tlyric)

\* the first line of r, in order, within the tolerance of time t; 0 when none
FirstNear(r, t) ==
    IF \E k \in 1..Len(r) : Near(r[k].time, t)
    THEN CHOOSE k \in 1..Len(r) :
            /\ Near(r[k].time, t)
            /\ \A j \in 1..(k - 1) : ~Near(r[j].time, t)
    ELSE 0

\* supplying a translation changes neither the number nor the order, the
\* times or the primary texts of the lines
SameLinesAsWithout(i) ==
    LET r == calls[i].ret
        p == parseLyrics(calls[i].lrc, UndefinedText)
    IN /\ Len(r) = Len(p)
       /\ \A k \in 1..Len(r) : r[k].time = p[k].time /\ r[k].text = p[k].text

PreviewCalls ==
    {i \in DOMAIN calls : calls[i].kind = "isProbablyPreview" /\ calls[i].pc = "done"}

\* rule 1: some stretch of the URL is, case apart, one of the six words
MatchesPattern(url) ==
    \E a \in 1..Len(url), b \in 1..Len(url) :
        a <= b /\ LowerCase(SubSeq(url, a, b)) \in previewPatterns

\* rule 2
SmallFile(size) == 0 < size /\ size < MIN_FILE_SIZE

\* rule 3, the duration being given in milliseconds
TypicalPreviewLength(ms) ==
    /\ ms >= MIN_DURATION * 1000
    /\ ms <= MAX_DURATION * 1000
    /\ \E t \in TYPICAL_DURATIONS :
          /\ ms - (t * 1000) <= DURATION_TOLERANCE * 1000
          /\ (t * 1000) - ms <= DURATION_TOLERANCE * 1000

AnyRule(c) ==
    MatchesPattern(c.url) \/ SmallFile(c.size) \/ TypicalPreviewLength(c.knownDuration)

\* C18 as stated: isProbablyPreview is true exactly when one of the three
\* rules holds (pattern in the URL, case-insensitively; 0 < size <
\* MIN_FILE_SIZE; duration typical of a preview) and false otherwise.
C18_TrueIffSomeRule ==
    \A i \in PreviewCalls : calls[i].ret <=> AnyRule(calls[i])

\* C18 amended: isProbablyPreview is true exactly when the URL is empty or
\* one of the three rules holds, and false otherwise; in particular it is
\* true for any URL containing "preview", whatever the size and duration.
C18_TrueIffEmptyOrSomeRule ==
    \A i \in PreviewCalls :
        /\ calls[i].ret <=> (calls[i].url = <<>> \/ AnyRule(calls[i]))
        /\ Includes(calls[i].url, <<"p","r","e","v","i","e","w">>) => calls[i].ret

\* a mixed-case "PreVieW" URL of 5 MB and four minutes: still a preview
C18_Witness ==
    \E i \in PreviewCalls :
        /\ calls[i].url = <<"P","r","e","V","i","e","W">>
        /\ calls[i].size = 5000000
        /\ calls[i].knownDuration = 240000
        /\ calls[i].ret

SimilarityCalls ==
    {i \in DOMAIN calls : calls[i].kind = "calculateSimilarity" /\ calls[i].pc = "done"}

\* the string without blanks, hyphens and brackets, letters in lower case
Normalized(s) ==
    LET keep == {k \in 1..Len(s) : s[k] \notin {" ", "-", "_", "(", ")", "[", "]"}}
        nth(j) == CHOOSE k \in keep : Cardinality({m \in keep : m < k}) = j - 1
    IN [j \in 1..Cardinality(keep) |-> ToLower(s[nth(j)])]

\* s contains t as a contiguous stretch
Contains(s, t) ==
    \/ t = <<>>
    \/ \E a \in 1..Len(s) : a + Len(t) - 1 <= Len(s) /\ SubSeq(s, a, a + Len(t) - 1) = t

SameRatio(r, n, d) == r.d > 0 /\ r.n * d = n * r.d

\* C19: calculateSimilarity(a, b) is always a value in [0, 1]: 1.0 when the
\* normalized strings are equal, 0.8 when one contains the other, otherwise
\* the number of characters the two have in common over the number of
\* characters either has (0 when they share none); and (b, a) gives the same.
C19_SimilarityValue ==
    \A i \in SimilarityCalls :
        LET r == calls[i].ret
            a == Normalized(calls[i].str1)
            b == Normalized(calls[i].str2)
            A == {a[k] : k \in 1..Len(a)}
            B == {b[k] : k \in 1..Len(b)}
        IN /\ r.d > 0 /\ 0 <= r.n /\ r.n <= r.d
           /\ IF a = b THEN SameRatio(r, 1, 1)
              ELSE IF Contains(a, b) \/ Contains(b, a) THEN SameRatio(r, 4, 5)
              ELSE /\ SameRatio(r, Cardinality(A \cap B), Cardinality(A \cup B))
                   /\ A \cap B = {} => r.n = 0
           /\ LET q == calculateSimilarity(calls[i].str2, calls[i].str1)
              IN r.n * q.d = q.n * r.d

\* "Cp" against "p(c": after normalizing neither equal nor contained, and the
\* same two letters in both: 2/2
C19_Witness ==
    \E i \in SimilarityCalls :
        /\ calls[i].str1 = <<"C", "p">>
        /\ calls[i].str2 = <<"p", "(", "c">>
        /\ calls[i].ret = Ratio(2, 2)

MatchCalls ==
    {i \in DOMAIN calls : calls[i].kind = "searchSingleSource" /\ calls[i].pc # "search"}

\* the score of candidate k of call i, as numerator over denominator
ScoreOf(i, k) ==
    calculateSongMatchScore(calls[i].songName, calls[i].artistName,
                            calls[i].songs[k].name, calls[i].songs[k].artist)

Qualifies(i, k) == ScoreOf(i, k).n * calls[i].threshold.d > calls[i].threshold.n * ScoreOf(i, k).d

\* C20: the candidate looked up scores strictly above SIMILARITY_THRESHOLD,
\* no candidate scores higher, and every candidate listed before it scores
\* lower; when no candidate qualifies no url lookup is made and the source
\* yields null.
C20_BestQualifyingFirstListed ==
    \A i \in MatchCalls :
        LET c == calls[i]
            n == Len(c.songs)
        IN IF \E k \in 1..n : Qualifies(i, k)
           THEN /\ c.lookup \in 1..n
                /\ Qualifies(i, c.lookup)
                /\ \A k \in 1..n :
                      ScoreOf(i, k).n * ScoreOf(i, c.lookup).d
                          <= ScoreOf(i, c.lookup).n * ScoreOf(i, k).d
                /\ \A k \in 1..(c.lookup - 1) :
                      ScoreOf(i, k).n * ScoreOf(i, c.lookup).d
                          < ScoreOf(i, c.lookup).n * ScoreOf(i, k).d
                /\ c.pc = "url128"
                /\ \E r \in requests : r.fn = "getSongUrlFromSource"
           ELSE /\ c.lookup = 0
                /\ c.pc = "done"
                /\ c.ret = NULL
                /\ \A r \in requests : r.fn # "getSongUrlFromSource"

\* a candidate scoring exactly the threshold is passed over, and of two
\* candidates with the same highest score the one listed first is looked up
C20_Witness ==
    \E i \in MatchCalls :
        /\ Len(calls[i].songs) = 3
        /\ ScoreOf(i, 1).n * calls[i].threshold.d = calls[i].threshold.n * ScoreOf(i, 1).d
        /\ calls[i].lookup = 2
        /\ calls[i].songs[2] # calls[i].songs[3]
        /\ ScoreOf(i, 2).n * ScoreOf(i, 3).d = ScoreOf(i, 3).n * ScoreOf(i, 2).d

\* C21: whenever the id left after trimming and the id= / playlist/
\* extraction is not a non-empty string of digits, parsePlaylistAPI raises the
\* validation error and no request has been made.
C21_InvalidIdRaisesBeforeRequest ==
    \A i \in DOMAIN calls :
        (/\ calls[i].kind = "parsePlaylistAPI"
         /\ calls[i].pc # "call"
         /\ ~AllDigits(PlaylistId(calls[i].playlistUrlOrId)))
        => /\ calls[i].pc = "done"
           /\ calls[i].ret = Thrown("invalid playlist id")
           /\ requests = {}

UnblockCalls ==
    {i \in DOMAIN calls : calls[i].kind = "tryGetFullVersionFromNeteaseUnblock"}

\* what one unblock call has done so far is what the claim allows
UnblockWithinBounds(i) ==
    LET c == calls[i]
        queue == Dedup(<<"128", "192", "320", c.quality>>)
        n == Len(c.asked)
    IN /\ c.song.source \notin {"netease", ""} /\ c.pc # "call"
          => c.pc = "done" /\ c.ret = NULL /\ n = 0 /\ requests = {}
       /\ n <= 2 * Len(queue)
       /\ n <= 8
       /\ \A k \in 1..n : c.asked[k] = queue[((k - 1) % Len(queue)) + 1]
       /\ \A k \in 1..(Len(c.answers) - 1) : c.answers[k] # "url"
       /\ c.pc = "wait" => Len(c.answers) = n - 1
       /\ c.pc = "done"
          => /\ Len(c.answers) = n
             /\ c.ret = NULL \/ (n > 0 /\ c.answers[n] = "url" /\ c.ret.br = c.asked[n])
             /\ (n > 0 /\ \A k \in 1..n : c.answers[k] # "url")
                => c.ret = NULL /\ n = 2 * Len(queue)

\* C22: an unblock call always ends; for a song of another source with null
\* and no request; for a primary-catalog song after at most 2 rounds over
\* the deduplicated bitrates (at most 8 requests), at the first answer with
\* a url, with null when every attempt failed, and never with an error.
C22_UnblockBoundedAndEnds ==
    /\ [](\A i \in UnblockCalls : UnblockWithinBounds(i))
    /\ <>(\A i \in UnblockCalls : calls[i].pc = "done")

\* every one of the 8 requests for quality '999' failed, some by rejection
C22_Witness ==
    \E i \in UnblockCalls :
        /\ calls[i].pc = "done"
        /\ calls[i].ret = NULL
        /\ Len(calls[i].asked) = 8
        /\ \E k \in 1..8 : calls[i].answers[k] = "rejected"

\* the answers one source of a sweep got to its url lookups, in order
UrlAnswers(id, s) ==
    SelectSeq(calls, LAMBDA c : c.kind = "urlAnswer" /\ c.sweep = id /\ c.source = s)

\* a url lookup's answer that carries a url not classified as preview
\* (the aggregator gives the size in KB)
FullAnswer(resp) ==
    /\ resp.t = "url"
    /\ resp.url # <<>>
    /\ ~isProbablyPreview(resp.url, IF resp.size > 0 THEN resp.size * 1024 ELSE 0, 0)

\* C23: a source's lookups are for '128' then '320'; its result is the first
\* answer not classified as preview, tagged with the source, and null when
\* there is none; so a sweep's non-null result has a non-empty url that is
\* not a preview and carries the tag of the source that produced it.
C23_TiersInOrderFirstFullAccepted ==
    \A id \in DOMAIN sweeps :
        LET sw == sweeps[id]
        IN /\ \A s \in DOMAIN sw.sub :
                 LET h == UrlAnswers(id, s)
                     n == Len(h)
                 IN /\ n <= 2
                    /\ n = 2 => h[1].q = "128" /\ h[2].q = "320"
                    /\ (n = 1 /\ ~sw.withheld) => h[1].q = "128"
                    /\ \A k \in 1..(n - 1) : ~FullAnswer(h[k].resp)
                    /\ (n > 0 /\ FullAnswer(h[n].resp))
                       => /\ sw.sub[s] = "done"
                          /\ sw.res[s] # NULL
                          /\ sw.res[s].url = h[n].resp.url
                          /\ sw.res[s].source = s
                    /\ sw.res[s] # NULL => n > 0 /\ FullAnswer(h[n].resp)
                    /\ sw.sub[s] = "url320" => n = 1 \/ sw.withheld
           /\ sw.ret # NULL
              => /\ sw.ret.url # <<>>
                 /\ ~isProbablyPreview(sw.ret.url, sw.ret.size, 0)
                 /\ sw.ret.source \in DOMAIN sw.sub
                 /\ sw.ret = sw.res[sw.ret.source]

\* a sweep returned the result of a '320' lookup made after the '128' lookup
\* of the same source was answered with a small file
C23_Witness ==
    \E id \in DOMAIN sweeps :
        /\ sweeps[id].ret # NULL
        /\ LET h == UrlAnswers(id, sweeps[id].ret.source)
           IN /\ Len(h) = 2
              /\ h[1].resp.url = <<"g","s">>
              /\ sweeps[id].ret.br = "320"

\* C24: right after initPlayer() in a fresh process, every playlist that
\* storage held is, with its songs, both in the in-memory store and in
\* storage.
C24_SavedPlaylistsSurviveInit ==
    (/\ calls # <<>>
     /\ calls[Len(calls)].kind = "initPlayer"
     /\ calls[Len(calls)].saved \notin {NoPlaylists, CorruptPlaylists})
    => LET saved == calls[Len(calls)].saved.data
       IN \A k \in DOMAIN saved :
              /\ k \in DOMAIN playlistStorage
              /\ playlistStorage[k] = saved[k]
              /\ localPlaylists \notin {NoPlaylists, CorruptPlaylists}
              /\ k \in DOMAIN localPlaylists.data
              /\ localPlaylists.data[k] = saved[k]

FavoritesOf(map) == map["favorites"].songs

InFavorites(map, song) ==
    \E k \in 1..Len(FavoritesOf(map)) :
        /\ FavoritesOf(map)[k].id = song.id
        /\ (IF FavoritesOf(map)[k].source = "" THEN "netease"
            ELSE FavoritesOf(map)[k].source)
           = (IF song.source = "" THEN "netease" ELSE song.source)

\* no two favorites with the same id and (defaulted) source
NoDuplicateFavorites ==
    "favorites" \in DOMAIN playlistStorage
    => \A j, k \in 1..Len(FavoritesOf(playlistStorage)) :
           j # k => ~InFavorites([favorites |-> [songs |->
                                     <<FavoritesOf(playlistStorage)[j]>>]],
                                 FavoritesOf(playlistStorage)[k])

\* a step made by toggleFavorite while the favorites playlist exists
TogglesFavorite ==
    /\ "favorites" \in DOMAIN playlistStorage
    /\ calls' # <<>>
    /\ calls'[Len(calls')].kind = "toggleFavorite"
    /\ playlistStorage' # playlistStorage

\* C28: the favorites never hold a song twice; a toggleFavorite(song) flips
\* the song's membership, returns whether it is a favorite afterwards, keeps
\* every other entry in its place (a new favorite goes to the front), leaves
\* the other playlists alone and writes the playlists to storage (a failing
\* write is swallowed and leaves the stored value).
C28_ToggleFlipsMembership ==
    /\ []NoDuplicateFavorites
    /\ [][TogglesFavorite =>
            LET t == calls'[Len(calls')]
                old == FavoritesOf(playlistStorage)
                new == FavoritesOf(playlistStorage')
                others(songs) ==
                    SelectSeq(songs, LAMBDA s :
                        ~InFavorites([favorites |-> [songs |-> <<s>>]], t.song))
            IN /\ InFavorites(playlistStorage', t.song)
                    = ~InFavorites(playlistStorage, t.song)
               /\ t.ret = InFavorites(playlistStorage', t.song)
               /\ others(new) = others(old)
               /\ others(old) = IF t.ret THEN old ELSE new
               /\ t.ret => new = <<t.song>> \o old
               /\ DOMAIN playlistStorage' = DOMAIN playlistStorage
               /\ \A k \in DOMAIN playlistStorage \ {"favorites"} :
                      playlistStorage'[k] = playlistStorage[k]
               /\ \/ localPlaylists' = [data |-> playlistStorage']
                  \/ localPlaylists' = localPlaylists]_vars

\* song 1 was toggled off through its untagged form, the other favorite
\* stayed, the list reached storage, and a custom playlist was left alone
C28_Witness ==
    /\ calls # <<>>
    /\ calls[Len(calls)] = [kind |-> "toggleFavorite",
                            song |-> [id |-> "1", source |-> ""], ret |-> FALSE]
    /\ "favorites" \in DOMAIN playlistStorage
    /\ FavoritesOf(playlistStorage) = <<[id |-> "2", source |-> "kuwo"]>>
    /\ localPlaylists = [data |-> playlistStorage]
    /\ "custom_1" \in DOMAIN playlistStorage

\* the breaker was at most asked whether a call may go out: the failure
\* counter is as it was, and the state too unless the question was the one
\* that turns a cooled-down OPEN breaker to HALF_OPEN
OnlyAsked(before, after) ==
    /\ after.failures = before.failures
    /\ \/ after.state = before.state
       \/ before.state = "OPEN" /\ before.cooled /\ after.state = "HALF_OPEN"

\* the answer handled in this step, if it is an aggregator's
AnswerHandled ==
    IF /\ Len(calls') = Len(calls) + 1
       /\ calls'[Len(calls')].kind \in {"urlAnswer", "musicAnswer"}
    THEN calls'[Len(calls')]
    ELSE [kind |-> "none"]

\* C25: a failure is recorded only for an answer that is a MusicError naming
\* 403, a success only for a url lookup answered with a url or a search
\* answered with songs; any other answer (another error, a body without url
\* or songs) leaves the breaker's state and failure counter as they were.
C25_OnlyRefusalsAndResultsRecorded ==
    [][LET a == AnswerHandled
           t == IF a.kind = "urlAnswer" THEN a.resp.t
                ELSE IF a.kind = "musicAnswer" THEN a.resp
                ELSE "none"
       IN IF t = "err403" THEN OnlyAsked(recordFailure(circuit), circuit')
          ELSE IF t \in {"url", "songs"} THEN OnlyAsked(recordSuccess(circuit), circuit')
          ELSE OnlyAsked(circuit, circuit')]_vars

\* a url lookup failed without a 403 while the breaker was one failure short
\* of opening: it still is
C25_Witness ==
    /\ circuit = Breaker("CLOSED", FailureThreshold - 1, FALSE, 0)
    /\ \E i \in DOMAIN calls : calls[i].kind = "urlAnswer" /\ calls[i].resp.t = "err"

\* the sweep started in this step, 0 if none
StartedSweep == IF Len(sweeps') = Len(sweeps) + 1 THEN Len(sweeps') ELSE 0

\* The breaker as the sweep started in this step found it: a sweep started on
\* the aggregator's preview comes after that answer was recorded as a success.
BreakerAtStart ==
    IF \E i \in DOMAIN calls :
           /\ calls[i].kind = "getSongUrl"
           /\ calls[i].pc = "agg"
           /\ calls'[i].sweep = StartedSweep
    THEN markGDStudioApiAvailable(circuit)
    ELSE circuit

\* C26: a sweep started while the breaker refuses every call makes no request
\* and is over at once with null; the failCount of every roster source but
\* the excluded one has gone up by exactly 1, no successCount has moved, the
\* stats have been written (a failing write is swallowed), and the sweep has
\* left the breaker as it found it.
C26_RefusedSweepFailsEverySource ==
    [][(StartedSweep # 0 /\ ~canExecute(BreakerAtStart).ok)
       => LET sw == sweeps'[StartedSweep]
              roster == {FALLBACK_SOURCES[k] : k \in 1..Len(FALLBACK_SOURCES)}
          IN /\ requests' \subseteq requests
             /\ sw.phase = "done"
             /\ sw.ret = NULL
             /\ \A s \in roster :
                    /\ sourceFailCount'[s] = sourceFailCount[s]
                           + (IF s # sw.exclude THEN 1 ELSE 0)
                    /\ sourceSuccessCount'[s] = sourceSuccessCount[s]
             /\ \/ storage' = [success |-> sourceSuccessCount',
                               fail |-> sourceFailCount']
                \/ storage' = storage
             /\ circuit' = BreakerAtStart]_vars

\* a sweep for a kuwo song, started with the breaker OPEN, is done: five
\* failCounts are 1, kuwo's is 0, and storage holds them
C26_Witness ==
    /\ circuit.state = "OPEN"
    /\ \E id \in DOMAIN sweeps :
           /\ sweeps[id].phase = "done"
           /\ sweeps[id].exclude = "kuwo"
    /\ requests = {}
    /\ sourceFailCount["kuwo"] = 0
    /\ \A s \in DOMAIN sourceFailCount : s # "kuwo" => sourceFailCount[s] = 1
    /\ storage = [success |-> sourceSuccessCount, fail |-> sourceFailCount]

\* the call has returned the aggregator's result over a sweep it started
LeftBehind(c) == c.kind = "getSongUrl" /\ c.pc = "done" /\ c.agg = "full" /\ c.sweep # 0

\* a running sweep has a request in flight, so a response can reach it
SweepPending ==
    \A id \in DOMAIN sweeps :
        sweeps[id].phase = "running"
        => \E s \in DOMAIN sweeps[id].sub :
               sweeps[id].sub[s] \in {"search", "url128", "url320"}

\* C27: a sweep that getSongUrl started and did not await runs on to its end
\* after the call has returned: it ends (never rejected), and the step that
\* ends it counts the sources and writes the stats (a failing write is
\* swallowed), while what the call returned stays the aggregator's result.
C27_BackgroundSweepCompletes ==
    /\ [][\A i \in DOMAIN calls :
             (LeftBehind(calls[i]) /\ sweeps[calls[i].sweep].phase = "running")
             => /\ calls'[i] = calls[i]
                /\ calls[i].ret = calls[i].aggRes
                /\ sweeps'[calls[i].sweep].phase \in {"running", "done"}
                /\ sweeps'[calls[i].sweep].phase = "done"
                   => /\ \/ sourceFailCount' # sourceFailCount
                         \/ sourceSuccessCount' # sourceSuccessCount
                      /\ \/ storage' = [success |-> sourceSuccessCount',
                                        fail |-> sourceFailCount']
                         \/ storage' = storage]_vars
    /\ [](SweepAwaits => SweepPending)
    /\ (calls # <<>> /\ LeftBehind(calls[1]))
           ~> (/\ calls # <<>>
               /\ calls[1].sweep # 0
               /\ sweeps[calls[1].sweep].phase = "done")

\* a call returned while its sweep was running; the sweep has since found a
\* result and counted it
C27_Witness ==
    \E i \in DOMAIN calls :
        /\ LeftBehind(calls[i])
        /\ sweeps[calls[i].sweep].phase = "done"
        /\ sweeps[calls[i].sweep].ret # NULL
        /\ calls[i].ret # sweeps[calls[i].sweep].ret
        /\ \E s \in DOMAIN sourceSuccessCount :
               storage # NoStats /\ storage.success[s] = LoadedCounts[s] + 1

\* the request just handled came from this client and reached the limiter
Limited(c, ip) ==
    /\ c.kind = "onRequest"
    /\ (IF c.header = "" THEN "unknown" ELSE c.header) = ip
    /\ c.url.present

\* C29: per client, a request that finds no window, or a window started more
\* than 60000 ms ago, starts a window with count 1 and is let through; any
\* other request is counted into the window, is let through while the count
\* is at most 60 and is answered 429 with no upstream fetch from the 61st on;
\* other clients' windows are untouched.
C29_SixtyPerWindow ==
    [][\A ip \in {"1.1.1.1", "unknown"} :
          (calls' # <<>> /\ calls' # calls /\ Limited(calls'[1], ip))
          => LET c == calls'[1]
                 fresh == \/ ip \notin DOMAIN rateLimitStore
                          \/ now - rateLimitStore[ip].windowStart > 60000
             IN /\ fresh => /\ rateLimitStore'[ip] = [windowStart |-> now, count |-> 1]
                            /\ c.status # 429
                /\ ~fresh => /\ rateLimitStore'[ip].windowStart
                                   = rateLimitStore[ip].windowStart
                             /\ rateLimitStore'[ip].count = rateLimitStore[ip].count + 1
                             /\ rateLimitStore[ip].count + 1 <= 60 => c.status # 429
                             /\ rateLimitStore[ip].count + 1 >= 61
                                   => c.status = 429 /\ c.fetch = NULL
                /\ \A other \in DOMAIN rateLimitStore :
                       other # ip => rateLimitStore'[other] = rateLimitStore[other]]_vars

\* the 61st request of the window that began at 0 was refused at 60000, the
\* window's last millisecond, while the client without a header has a
\* window begun at 60000
C29_Witness ==
    /\ calls # <<>>
    /\ calls[1].kind = "onRequest"
    /\ calls[1].header = "1.1.1.1"
    /\ calls[1].status = 429
    /\ calls[1].fetch = NULL
    /\ calls[1].at = 60000
    /\ DOMAIN rateLimitStore = {"1.1.1.1", "unknown"}
    /\ rateLimitStore["1.1.1.1"] = [windowStart |-> 0, count |-> 61]
    /\ rateLimitStore["unknown"].windowStart = 60000

\* the hostname the request names, <<>> when its url parameter names none
HostnameOf(c) ==
    IF ~c.url.present \/ decodeURIComponent(c.url.text).thrown THEN <<>>
    ELSE ParseUrl(decodeURIComponent(c.url.text).text).hostname

\* an upstream fetch is made only for a request with a url parameter that was
\* not refused by the limiter and names an allowed host or a subdomain of one
FetchOnlyWhenAllowed ==
    \A i \in DOMAIN calls :
        (calls[i].kind = "onRequest" /\ calls[i].fetch # NULL)
        => /\ calls[i].url.present
           /\ calls[i].status # 429
           /\ calls[i].fetch.hostname = HostnameOf(calls[i])
           /\ \E host \in ALLOWED_HOSTS :
                  \/ HostnameOf(calls[i]) = host
                  \/ EndsWith(HostnameOf(calls[i]), host)

\* the cookie travels, as a header or in the query, only to a cookie host or a
\* subdomain of one
CookieOnlyForNetease ==
    \A i \in DOMAIN calls :
        (/\ calls[i].kind = "onRequest"
         /\ calls[i].fetch # NULL
         /\ calls[i].fetch.cookie \/ calls[i].fetch.query)
        => \E host \in NETEASE_COOKIE_HOSTS :
               \/ HostnameOf(calls[i]) = host
               \/ EndsWith(HostnameOf(calls[i]), host)

\* a request for which no fetch is made is answered 400 when it has no url
\* parameter, and else 429 or 403
RefusedWith400_429_403 ==
    \A i \in DOMAIN calls :
        (calls[i].kind = "onRequest" /\ calls[i].fetch = NULL)
        => /\ ~calls[i].thrown
           /\ ~calls[i].url.present => calls[i].status = 400
           /\ calls[i].status \in {400, 429, 403}

\* C30: the proxy fetches upstream only for a request that carries a url
\* parameter, passed the limiter and names an allowed host or a subdomain of
\* one; every other request is answered 400, 429 or 403 with no fetch; and the
\* VIP cookie is attached only for a cookie host or a subdomain of one.
C30_FetchGatedAndRefusalsAnswered ==
    /\ FetchOnlyWhenAllowed
    /\ RefusedWith400_429_403
    /\ CookieOnlyForNetease

====
